---- MODULE Spec2Model ----
(***************************************************************************)
(* Verification model of the kvi storage engine:                           *)
(*   - KviEngine (internal/engine/engine.go): memory table, ordered index, *)
(*     MVCC chains, snapshot/restore, WAL integration and recovery;        *)
(*   - WAL (internal/wal/wal.go): buffering, framing, CRC, read_all;       *)
(*   - MVCCManager (internal/engine/mvcc.go);                              *)
(*   - HybridEngine with its Memory/Disk tiers and the asynchronous        *)
(*     write pipeline.                                                     *)
(* Records are heap objects: the engine stores the caller's *Record        *)
(* pointer, so object identity is modelled explicitly.                     *)
(***************************************************************************)
EXTENDS Integers, Sequences, FiniteSets, TLC

----------------------------------------------------------------------------
(* Bounds of the model *)

\* record objects that may be allocated in one process lifetime
MaxObjs == 4
\* wall-clock instants 1..MaxNow
MaxNow == 2
\* state-changing calls (put, delete, batch put, restore, close, crash) and
\* clock ticks per run
MaxOps == 3

Keys == {"a", "b"}
NoKey == ""
\* keys in ascending (byte-wise) order, as the B-tree holds them
KeyOrder == <<"a", "b">>

Modes == {"memory", "disk", "columnar", "vector", "hybrid"}

\* config.DefaultConfig: EnableChecksum is true in every stock configuration
EnableChecksum == TRUE
\* configured vector dimension (tests use 3)
VectorDim == 3

----------------------------------------------------------------------------
(* Dynamic values of Record.Data (map[string]interface{}) *)

IntVal(s) == [k |-> "int", s |-> s]
StrVal(s) == [k |-> "string", s |-> s]
FloatVal(s) == [k |-> "float64", s |-> s]

\* an int64 above 2^53 and the float64 nearest to it
WideInt == "9007199254740993"
WideIntAsFloat == "9007199254740992"

\* Data maps a caller may pass
DataOne == [v |-> IntVal("1")]
DataTwo == [name |-> StrVal("test"), value |-> IntVal("123")]
DataWide == [ts |-> IntVal(WideInt)]

\* strconv shortest decimal form of float64(n) for the integers of the model
Float64Text(s) == IF s = WideInt THEN WideIntAsFloat ELSE s

\* encoding/json: numbers are written as their decimal text, strings quoted
JsonEnc(v) == IF v.k = "string" THEN [j |-> "str", s |-> v.s]
              ELSE [j |-> "num", s |-> v.s]

\* encoding/json into interface{}: every number becomes a float64
JsonDec(x) == IF x.j = "str" THEN StrVal(x.s) ELSE FloatVal(Float64Text(x.s))

JsonEncData(d) == [f \in DOMAIN d |-> JsonEnc(d[f])]
JsonDecData(d) == [f \in DOMAIN d |-> JsonDec(d[f])]

----------------------------------------------------------------------------
(* Instants.  A time.Time obtained from time.Now() carries a monotonic     *)
(* reading; one decoded from JSON does not.  Time.String() prints it.      *)

Instant(t, mono) == [t |-> t, mono |-> mono]
ZeroTime == Instant(0, FALSE)
TimeString(x) == ToString(x.t) \o (IF x.mono THEN " m=+" \o ToString(x.t) ELSE "")

----------------------------------------------------------------------------
(* Records *)

\* vec: length of Record.Vector (0 = no vector)
\* ttl: expiration instant (0 = nil)
NewRecord(id, data, vec, ttl) ==
  [id |-> id, data |-> data, vec |-> vec, version |-> 0, ttl |-> ttl,
   checksum |-> "", created |-> ZeroTime, updated |-> ZeroTime]

NullRecord == [id |-> NoKey, data |-> << >>, vec |-> 0, version |-> 0, ttl |-> 0,
               checksum |-> "", created |-> ZeroTime, updated |-> ZeroTime]

\* engine.toString: a string as is, a number n as the rune int32(n)
\* (2^53 truncates to rune 0, 2^53+1 to rune 1)
toString(v) == IF v.k = "string" THEN v.s
               ELSE IF v.s = WideInt THEN "r1"
               ELSE IF v.s = WideIntAsFloat THEN "r0"
               ELSE "r" \o v.s

\* all orders in which a range loop may visit the keys of a Go map
RECURSIVE Orders(_)
Orders(S) == IF S = {} THEN {<< >>}
             ELSE UNION {{<<x>> \o o : o \in Orders(S \ {x})} : x \in S}

RECURSIVE ConcatFields(_, _)
ConcatFields(d, ord) ==
  IF ord = << >> THEN ""
  ELSE Head(ord) \o toString(d[Head(ord)]) \o ConcatFields(d, Tail(ord))

\* engine.calculateChecksum, for one iteration order of r.Data; CRC-32 is
\* taken to be injective on the strings of the model
calculateChecksum(r, ord) == r.id \o TimeString(r.updated) \o ConcatFields(r.data, ord)

\* the checksums calculateChecksum may return for r
Checksums(r) == {calculateChecksum(r, ord) : ord \in Orders(DOMAIN r.data)}

----------------------------------------------------------------------------
(* Write-ahead log: internal/wal/wal.go *)

\* wal.go: Append flushes once the buffer holds this many entries
FlushThreshold == 1000

ZeroCrc == [zero |-> TRUE]
\* crc32.ChecksumIEEE, taken to be injective on the payloads of the model
Crc32(x) == [crc |-> x]

NullSer == [null |-> TRUE]
NoSer == [none |-> TRUE]

\* json.Marshal of a *types.Record
MarshalRecord(r) ==
  [id |-> r.id, data |-> JsonEncData(r.data), vector |-> r.vec, version |-> r.version,
   ttl |-> r.ttl, checksum |-> r.checksum, created_at |-> r.created.t,
   updated_at |-> r.updated.t]

\* json.Unmarshal into a types.Record
UnmarshalRecord(s) ==
  [id |-> s.id, data |-> JsonDecData(s.data), vec |-> s.vector, version |-> s.version,
   ttl |-> s.ttl, checksum |-> s.checksum, created |-> Instant(s.created_at, FALSE),
   updated |-> Instant(s.updated_at, FALSE)]

\* a LogEntry held in memory: Record is a pointer (0 = nil); for a batch
\* entry Batch holds the pointers stored in Record.Data["batch"]
LogEntry(op, key, rec) ==
  [LSN |-> 0, Timestamp |-> 0, Op |-> op, Key |-> key, Record |-> rec,
   Batch |-> [k \in Keys |-> 0], Checksum |-> ZeroCrc]

BatchEntry(objs) == [LogEntry("BATCH", NoKey, 0) EXCEPT !.Batch = objs]

\* json.Marshal of a Record whose Data["batch"] is a map[string]*Record:
\* each record is written in struct field order
MarshalBatch(objs, h) ==
  [batch |-> [k \in {x \in Keys : objs[x] # 0} |-> MarshalRecord(h[objs[k]])],
   structOrder |-> TRUE]

\* the same JSON decoded into map[string]interface{} and marshalled again:
\* the fields of each record come out in sorted key order
RemarshalBatch(b) == [b EXCEPT !.structOrder = FALSE]

\* the record json.Unmarshal builds for a batch entry
DecodedBatch == [NullRecord EXCEPT !.data = [batch |-> [k |-> "map", s |-> "batch"]]]

\* json.Marshal of a LogEntry, reading the record it points to from heap h
MarshalEntry(e, h) ==
  [lsn |-> e.LSN, timestamp |-> e.Timestamp, op |-> e.Op, key |-> e.Key,
   record |-> IF e.Op = "BATCH" THEN MarshalBatch(e.Batch, h)
              ELSE IF e.Record = 0 THEN NullSer ELSE MarshalRecord(h[e.Record]),
   checksum |-> e.Checksum]

\* a LogEntry as json.Unmarshal rebuilds it: Record is the decoded content
UnmarshalEntry(s) ==
  [LSN |-> s.lsn, Timestamp |-> s.timestamp, Op |-> s.op, Key |-> s.key,
   Record |-> IF s.op = "BATCH" THEN DecodedBatch
              ELSE IF s.record = NullSer THEN NullRecord ELSE UnmarshalRecord(s.record),
   HasRecord |-> s.record # NullSer, Checksum |-> s.checksum]

\* json.Marshal of a decoded entry whose Checksum was reset to 0 (wal.go 179-181)
RemarshalZeroed(s) ==
  [s EXCEPT !.checksum = ZeroCrc,
            !.record = IF s.op = "BATCH" THEN RemarshalBatch(s.record)
                       ELSE IF s.record = NullSer THEN NullSer
                       ELSE MarshalRecord(UnmarshalRecord(s.record))]

\* number of payload units of a serialized entry (a put carries a record)
PayloadLen(s) == IF s.record = NullSer THEN 1 ELSE 2

LenUnit(n) == [u |-> "len", n |-> n, ser |-> NoSer]
PayUnit(s, i) == [u |-> "pay", n |-> i, ser |-> s]
BadUnit == [u |-> "bad", n |-> 0, ser |-> NoSer]

\* the frame Flush writes for one entry: length prefix, then the payload
Frame(s) == <<LenUnit(PayloadLen(s))>> \o [i \in 1..PayloadLen(s) |-> PayUnit(s, i)]

\* WAL.Append (wal.go 73-96): stamps the entry, computes its CRC from the
\* record as it is now, and buffers it
AppendEntry(e, t, h) ==
  LET stamped == [e EXCEPT !.Timestamp = t, !.LSN = t]
  IN [stamped EXCEPT !.Checksum = Crc32(MarshalEntry(stamped, h))]

RECURSIVE FramesOf(_, _)
\* the bytes Flush writes for the buffered entries, marshalled at flush time
FramesOf(buf, h) ==
  IF buf = << >> THEN << >>
  ELSE Frame(MarshalEntry(Head(buf), h)) \o FramesOf(Tail(buf), h)

\* the length a 4-byte read yields: a length prefix, or payload bytes (JSON
\* text) read as an integer, which exceeds any file of the model
LengthAt(file, pos) == IF file[pos].u = "len" THEN file[pos].n ELSE Len(file) + 1

\* json.Unmarshal of the bytes read for one frame
Decodes(data, length) ==
  /\ Len(data) = length
  /\ length > 0
  /\ \A i \in 1..length : data[i].u = "pay" /\ data[i].n = i /\ data[i].ser = data[1].ser
  /\ PayloadLen(data[1].ser) = length

\* the CRC check of ReadAll (wal.go 178-186)
CrcValid(s) == Crc32(RemarshalZeroed(s)) = s.checksum

RECURSIVE ReadFrom(_, _)
\* the read loop of WAL.ReadAll (wal.go 156-189) from unit pos on
ReadFrom(file, pos) ==
  IF pos > Len(file) THEN << >>
  ELSE LET length == LengthAt(file, pos)
           avail == Len(file) - pos
           taken == IF length < avail THEN length ELSE avail
           data == SubSeq(file, pos + 1, pos + taken)
       IN IF avail = 0 THEN << >>
          ELSE IF Decodes(data, length) /\ CrcValid(data[1].ser)
               THEN <<UnmarshalEntry(data[1].ser)>> \o ReadFrom(file, pos + 1 + taken)
               ELSE ReadFrom(file, pos + 1 + taken)

ReadAll(file) == ReadFrom(file, 1)

----------------------------------------------------------------------------
(* MVCC version manager: internal/engine/mvcc.go *)

\* mvcc.go: AddVersion keeps only the last 10 versions of a key
MaxVersions == 10

VersionedRecord(tx, rec, deleted, t) ==
  [TxID |-> tx, Record |-> rec, Deleted |-> deleted, Timestamp |-> t]

LastN(s, n) == IF Len(s) > n THEN SubSeq(s, Len(s) - n + 1, Len(s)) ELSE s

\* MVCCManager.AddVersion on the chain of one key
AddVersion(chain, rec, tx, t) ==
  LastN(Append(chain, VersionedRecord(tx, rec, FALSE, t)), MaxVersions)

\* MVCCManager.MarkDeleted on the chain of one key
MarkDeleted(chain, tx, t) == Append(chain, VersionedRecord(tx, 0, TRUE, t))

NotFound == [err |-> "not_found", rec |-> 0]
Corruption == [err |-> "corruption", rec |-> 0]
Found(o) == [err |-> "ok", rec |-> o]

RECURSIVE ScanBack(_, _, _)
\* the newest-to-oldest loop of MVCCManager.Get from position i
ScanBack(chain, i, asOfTx) ==
  IF i < 1 THEN NotFound
  ELSE IF chain[i].TxID <= asOfTx /\ ~chain[i].Deleted THEN Found(chain[i].Record)
  ELSE ScanBack(chain, i - 1, asOfTx)

\* MVCCManager.Get(key, asOfTx) on the chain of the key
MvccGet(chain, asOfTx) == ScanBack(chain, Len(chain), asOfTx)

RECURSIVE ScanLatest(_, _)
ScanLatest(chain, i) ==
  IF i < 1 THEN NotFound
  ELSE IF ~chain[i].Deleted THEN Found(chain[i].Record)
  ELSE ScanLatest(chain, i - 1)

\* MVCCManager.GetLatest(key) on the chain of the key
GetLatest(chain) == ScanLatest(chain, Len(chain))

----------------------------------------------------------------------------
(* State *)

VARIABLES
  \* KviEngine configuration and lifecycle
  mode,          \* cfg.Mode
  walOn,         \* e.wal # nil  (disk/hybrid with EnableWAL and a WAL path)
  up,            \* "open" | "down" (closed or crashed; volatile state gone)
  now,           \* the wall clock
  ops,           \* operations performed so far (bounds the run)
  \* process memory
  heap,          \* record objects: id -> content
  alloc,         \* number of objects allocated
  memTable,      \* key -> object (0 = absent)
  index,         \* set of BTreeItem
  mvcc,          \* key -> version chain
  walBuf,        \* WAL.buffer
  snap,          \* the snapshot value the caller holds
  recordsTotal,  \* stats.RecordsTotal
  vecIds,        \* ids present in the HNSW index
  colRows,       \* rows appended to the columnar store
  \* the disk
  walFile,       \* the WAL file, as a sequence of units
  \* history (ghost) variables used to state properties
  ack,           \* key -> last acknowledged put not followed by another op on the key
  gone,          \* key -> TRUE once deleted and not written again
  durable,       \* key -> what the acknowledged puts/deletes promise to survive a crash
  snapView,      \* content of the memory table when the snapshot was taken
  last,          \* the last operation and what it returned
  expiredKeys    \* keys the TTL cleaner has collected and not yet deleted

engineVars == <<mode, walOn, up, now, ops, heap, alloc, memTable, index, mvcc,
                walBuf, snap, recordsTotal, vecIds, colRows, walFile,
                ack, gone, durable, snapView, last, expiredKeys>>

Objs == 1..MaxObjs
EmptyHeap == [o \in Objs |-> NullRecord]
EmptyTable == [k \in Keys |-> 0]
NoSnapshot == [taken |-> FALSE, Version |-> 0, Records |-> EmptyTable,
               CreatedAt |-> 0, Checksum |-> <<0, 0, 0>>]
NoAck == [ok |-> FALSE, id |-> NoKey, data |-> << >>, ttl |-> 0, version |-> 0]

TableKeys(t) == {k \in Keys : t[k] # 0}

\* time.Now().After(*rec.TTL)
Expired(r, t) == r.ttl # 0 /\ t > r.ttl

----------------------------------------------------------------------------
(* KviEngine: internal/engine/engine.go *)

\* btree ReplaceOrInsert / Delete on the set of BTreeItem (ordered by Key)
ReplaceOrInsert(idx, k, v) == {i \in idx : i.Key # k} \cup {[Key |-> k, Version |-> v]}
IndexDelete(idx, k) == {i \in idx : i.Key # k}
IndexKeys(idx) == {i.Key : i \in idx}

\* position of a string in byte-wise order among the strings of the model
KeyRank(x) == IF x = "" THEN 0
              ELSE IF \E i \in 1..Len(KeyOrder) : KeyOrder[i] = x
                   THEN CHOOSE i \in 1..Len(KeyOrder) : KeyOrder[i] = x
                   ELSE Len(KeyOrder) + 1

\* e.wal.Append: buffer the entry, flush when the buffer is full
WalBufAfter(buf, e, t, h) ==
  LET b == Append(buf, AppendEntry(e, t, h))
  IN IF Len(b) >= FlushThreshold THEN << >> ELSE b

WalFileAfter(file, buf, e, t, h) ==
  LET b == Append(buf, AppendEntry(e, t, h))
  IN IF Len(b) >= FlushThreshold THEN file \o FramesOf(b, h) ELSE file

\* the fields Put and BatchPut assign before storing (engine.go 180-189)
Stamp(r, k, t) ==
  [r EXCEPT !.id = IF @ = NoKey THEN k ELSE @,
            !.created = IF @.t = 0 THEN Instant(t, TRUE) ELSE @,
            !.updated = Instant(t, TRUE),
            !.version = t]

\* KviEngine.Get: the results it may return for key k (one per order in
\* which verifyChecksum may visit the data fields)
GetOutcomes(k) ==
  IF memTable[k] = 0 THEN {NotFound}
  ELSE LET r == heap[memTable[k]]
       IN IF Expired(r, now) THEN {NotFound}
          ELSE IF mode # "memory" /\ EnableChecksum
               THEN {IF r.checksum = c THEN Found(memTable[k]) ELSE Corruption :
                       c \in Checksums(r)}
               ELSE {Found(memTable[k])}

\* KviEngine.Get(ctx, key), ctx being "live" or "cancelled": a parameter the
\* body never reads
Get(ctx, k) == GetOutcomes(k)

RECURSIVE ScanFrom(_, _, _, _)
\* the AscendGreaterOrEqual callback of KviEngine.Scan from the i-th key on
ScanFrom(i, end, limit, acc) ==
  IF i > Len(KeyOrder) THEN acc
  ELSE LET k == KeyOrder[i]
       IN IF k \notin IndexKeys(index) THEN ScanFrom(i + 1, end, limit, acc)
          ELSE IF end # "" /\ KeyRank(k) >= KeyRank(end) THEN acc
          ELSE IF limit > 0 /\ Len(acc) >= limit THEN acc
          ELSE IF memTable[k] # 0 /\ ~Expired(heap[memTable[k]], now)
               THEN ScanFrom(i + 1, end, limit, Append(acc, k))
               ELSE ScanFrom(i + 1, end, limit, acc)

\* KviEngine.Scan(start, end, limit): the keys of the records returned
Scan(start, end, limit) ==
  ScanFrom(IF KeyRank(start) = 0 THEN 1 ELSE KeyRank(start), end, limit, << >>)

\* KviEngine.Put(key, value) where value points to object o of heap h0
\* (h0, a1: heap and allocation count once the caller has built the record)
Put(k, o, h0, a1) ==
  /\ up = "open"
  /\ \E c \in Checksums(Stamp(h0[o], k, now)) :
       LET r == [Stamp(h0[o], k, now) EXCEPT !.checksum = c]
           h1 == [h0 EXCEPT ![o] = r]
           e == LogEntry("PUT", k, o)
           addErr == mode = "vector" /\ r.vec > 0 /\ (r.vec # VectorDim \/ k \in vecIds)
           ok == ~addErr
       IN /\ heap' = h1
          /\ alloc' = a1
          /\ walBuf' = IF walOn THEN WalBufAfter(walBuf, e, now, h1) ELSE walBuf
          /\ walFile' = IF walOn THEN WalFileAfter(walFile, walBuf, e, now, h1) ELSE walFile
          /\ mvcc' = [mvcc EXCEPT ![k] = AddVersion(@, o, r.version, now)]
          /\ memTable' = [memTable EXCEPT ![k] = o]
          /\ recordsTotal' = Cardinality(TableKeys(memTable'))
          /\ index' = ReplaceOrInsert(index, k, r.version)
          /\ colRows' = IF mode = "columnar" THEN colRows + 1 ELSE colRows
          /\ vecIds' = IF mode = "vector" /\ r.vec > 0 /\ ok THEN vecIds \cup {k} ELSE vecIds
          /\ last' = [op |-> "put", key |-> k, err |-> IF ok THEN "ok" ELSE "error",
                      clean |-> FALSE]
          /\ ack' = [ack EXCEPT ![k] = IF ok THEN [ok |-> TRUE, id |-> r.id, data |-> r.data,
                                                   ttl |-> r.ttl, version |-> r.version]
                                         ELSE NoAck]
          /\ gone' = [gone EXCEPT ![k] = FALSE]
          /\ durable' = [durable EXCEPT ![k] =
                           IF ok THEN [st |-> "put", version |-> r.version, id |-> r.id]
                           ELSE [st |-> "none", version |-> 0, id |-> NoKey]]
  /\ ops' = ops + 1
  /\ UNCHANGED <<mode, walOn, up, now, snap, snapView, expiredKeys>>

\* a put of a record the caller has just built
PutNew(k, tpl) ==
  /\ alloc < MaxObjs
  /\ Put(k, alloc + 1, [heap EXCEPT ![alloc + 1] = tpl], alloc + 1)

\* a put of the record object stored under key k (as obtained from Get),
\* the way Executor.handleUpdate writes a record back
PutStored(k) ==
  /\ memTable[k] # 0
  /\ Put(k, memTable[k], heap, alloc)

\* a Delete that leaves the record in the memory table
TableDelete_Keep(t, k) == t

\* delete(e.memTable, key)
TableDelete(t, k) == [t EXCEPT ![k] = 0]

\* KviEngine.Delete(key), called by op ("delete" or "clean")
DeleteKey(k, op) ==
  /\ up = "open"
  /\ LET e == LogEntry("DELETE", k, 0)
     IN /\ walBuf' = IF walOn THEN WalBufAfter(walBuf, e, now, heap) ELSE walBuf
        /\ walFile' = IF walOn THEN WalFileAfter(walFile, walBuf, e, now, heap) ELSE walFile
  /\ mvcc' = [mvcc EXCEPT ![k] = MarkDeleted(@, now, now)]
  /\ memTable' = TableDelete(memTable, k)
  /\ recordsTotal' = Cardinality(TableKeys(memTable'))
  /\ index' = IndexDelete(index, k)
  /\ last' = [op |-> op, key |-> k, err |-> "ok", clean |-> FALSE]
  /\ ack' = [ack EXCEPT ![k] = NoAck]
  /\ gone' = [gone EXCEPT ![k] = TRUE]
  /\ durable' = [durable EXCEPT ![k] = [st |-> "delete", version |-> 0, id |-> NoKey]]
  /\ UNCHANGED <<mode, walOn, up, now, heap, alloc, snap, vecIds, colRows, snapView>>

Delete(k) ==
  /\ DeleteKey(k, "delete")
  /\ ops' = ops + 1
  /\ UNCHANGED expiredKeys

\* ttlCleaner, first half of cleanExpired: collect the expired keys
CleanScan ==
  /\ up = "open"
  /\ expiredKeys = {}
  /\ expiredKeys' = {k \in TableKeys(memTable) : Expired(heap[memTable[k]], now)}
  /\ UNCHANGED <<mode, walOn, up, now, ops, heap, alloc, memTable, index, mvcc,
                 walBuf, snap, recordsTotal, vecIds, colRows, walFile,
                 ack, gone, durable, snapView, last>>

\* ttlCleaner, second half of cleanExpired: delete one collected key
CleanDelete(k) ==
  /\ k \in expiredKeys
  /\ DeleteKey(k, "clean")
  /\ expiredKeys' = expiredKeys \ {k}
  /\ UNCHANGED ops

\* statsCollector tick
StatsCollect ==
  /\ up = "open"
  /\ recordsTotal' = Cardinality(TableKeys(memTable))
  /\ UNCHANGED <<mode, walOn, up, now, ops, heap, alloc, memTable, index, mvcc,
                 walBuf, snap, vecIds, colRows, walFile,
                 ack, gone, durable, snapView, last, expiredKeys>>

\* the wall clock advances
Tick ==
  /\ now' = now + 1
  /\ last' = [op |-> "tick", key |-> NoKey, err |-> "ok", clean |-> FALSE]
  /\ ops' = ops + 1
  /\ UNCHANGED <<mode, walOn, up, heap, alloc, memTable, index, mvcc,
                 walBuf, snap, recordsTotal, vecIds, colRows, walFile,
                 ack, gone, durable, snapView, expiredKeys>>

\* the checksum choices for the records of a batch, one per record
BatchChecksums(S, recs) ==
  {f \in [S -> UNION {Checksums(recs[k]) : k \in S}] : \A k \in S : f[k] \in Checksums(recs[k])}

\* KviEngine.BatchPut(entries): entries maps the keys of S to freshly built
\* records tpl[k], allocated as consecutive objects in key order
BatchPut(S, tpl) ==
  /\ up = "open"
  /\ S # {}
  /\ alloc + Cardinality(S) <= MaxObjs
  /\ LET objOf == [k \in Keys |->
                     IF k \in S THEN alloc + Cardinality({j \in S : KeyRank(j) <= KeyRank(k)})
                     ELSE 0]
         stamped == [k \in S |-> IF walOn THEN Stamp(tpl[k], k, now) ELSE tpl[k]]
     IN \E cs \in BatchChecksums(S, stamped) :
          LET recOf == [k \in S |-> IF walOn THEN [stamped[k] EXCEPT !.checksum = cs[k]]
                                    ELSE stamped[k]]
              h1 == [o \in Objs |-> IF \E k \in S : objOf[k] = o
                                    THEN recOf[CHOOSE k \in S : objOf[k] = o]
                                    ELSE heap[o]]
              e == BatchEntry(objOf)
          IN /\ heap' = h1
             /\ walBuf' = IF walOn THEN WalBufAfter(walBuf, e, now, h1) ELSE walBuf
             /\ walFile' = IF walOn THEN WalFileAfter(walFile, walBuf, e, now, h1) ELSE walFile
             /\ memTable' = [k \in Keys |-> IF k \in S THEN objOf[k] ELSE memTable[k]]
             /\ index' = {i \in index : i.Key \notin S}
                           \cup {[Key |-> k, Version |-> recOf[k].version] : k \in S}
             /\ ack' = [k \in Keys |-> IF k \in S THEN NoAck ELSE ack[k]]
             /\ gone' = [k \in Keys |-> IF k \in S THEN FALSE ELSE gone[k]]
             /\ durable' = [k \in Keys |-> IF k \in S
                                           THEN [st |-> IF walOn THEN "batch" ELSE "none",
                                                 version |-> 0, id |-> NoKey]
                                           ELSE durable[k]]
  /\ alloc' = alloc + Cardinality(S)
  /\ colRows' = IF mode = "columnar" THEN colRows + Cardinality(S) ELSE colRows
  /\ last' = [op |-> "batch", key |-> NoKey, err |-> "ok", clean |-> FALSE]
  /\ ops' = ops + 1
  /\ UNCHANGED <<mode, walOn, up, now, mvcc, snap, recordsTotal, vecIds, snapView,
                 expiredKeys>>

\* engine.calculateSnapshotChecksum: version, creation time, record count
calculateSnapshotChecksum(s) == <<s.Version, s.CreatedAt, Cardinality(TableKeys(s.Records))>>

\* what a property compares of a record: its identity, data and version
View(r) == [present |-> TRUE, id |-> r.id, data |-> r.data, version |-> r.version]
NoView == [present |-> FALSE, id |-> NoKey, data |-> << >>, version |-> 0]
TableView(t, h) == [k \in Keys |-> IF t[k] = 0 THEN NoView ELSE View(h[t[k]])]

\* KviEngine.Snapshot: a struct copy of every record, allocated in key order
Snapshot ==
  /\ up = "open"
  /\ alloc + Cardinality(TableKeys(memTable)) <= MaxObjs
  /\ LET S == TableKeys(memTable)
         objOf == [k \in Keys |->
                     IF k \in S THEN alloc + Cardinality({j \in S : KeyRank(j) <= KeyRank(k)})
                     ELSE 0]
         s0 == [taken |-> TRUE, Version |-> now, Records |-> objOf, CreatedAt |-> now,
                Checksum |-> <<0, 0, 0>>]
     IN /\ heap' = [o \in Objs |-> IF \E k \in S : objOf[k] = o
                                   THEN heap[memTable[CHOOSE k \in S : objOf[k] = o]]
                                   ELSE heap[o]]
        /\ alloc' = alloc + Cardinality(S)
        /\ snap' = [s0 EXCEPT !.Checksum = calculateSnapshotChecksum(s0)]
        /\ snapView' = [clean |-> TRUE, recs |-> TableView(memTable, heap)]
  /\ last' = [op |-> "snapshot", key |-> NoKey, err |-> "ok", clean |-> FALSE]
  /\ UNCHANGED <<ops, mode, walOn, up, now, memTable, index, mvcc, walBuf, recordsTotal,
                 vecIds, colRows, walFile, ack, gone, durable, expiredKeys>>

\* a Restore that installs the snapshot without verifying its checksum
Restore_Unverified(s) ==
  /\ up = "open"
  /\ s.taken
  /\ memTable' = s.Records
  /\ recordsTotal' = Cardinality(TableKeys(s.Records))
  /\ index' = {[Key |-> k, Version |-> heap[s.Records[k]].version] :
                 k \in TableKeys(s.Records)}
  /\ last' = [op |-> "restore", key |-> NoKey, err |-> "ok", clean |-> snapView.clean]
  /\ ack' = [k \in Keys |-> NoAck]
  /\ gone' = [k \in Keys |-> IF s.Records[k] # 0 THEN FALSE ELSE gone[k]]
  /\ durable' = [k \in Keys |-> [st |-> "none", version |-> 0, id |-> NoKey]]
  /\ snapView' = [snapView EXCEPT !.clean = FALSE]
  /\ ops' = ops + 1
  /\ UNCHANGED <<mode, walOn, up, now, heap, alloc, mvcc, walBuf, snap, vecIds, colRows,
                 walFile, expiredKeys>>

\* KviEngine.Restore(s)
Restore(s) ==
  /\ up = "open"
  /\ s.taken
  /\ IF s.Checksum # calculateSnapshotChecksum(s)
     THEN /\ last' = [op |-> "restore", key |-> NoKey, err |-> "corruption", clean |-> FALSE]
          /\ UNCHANGED <<memTable, recordsTotal, index, ack, gone, durable, snapView>>
     ELSE /\ memTable' = s.Records
          /\ recordsTotal' = Cardinality(TableKeys(s.Records))
          /\ index' = {[Key |-> k, Version |-> heap[s.Records[k]].version] :
                         k \in TableKeys(s.Records)}
          /\ last' = [op |-> "restore", key |-> NoKey, err |-> "ok", clean |-> snapView.clean]
          /\ ack' = [k \in Keys |-> NoAck]
          /\ gone' = [k \in Keys |-> IF s.Records[k] # 0 THEN FALSE ELSE gone[k]]
          /\ durable' = [k \in Keys |-> [st |-> "none", version |-> 0, id |-> NoKey]]
          /\ snapView' = [snapView EXCEPT !.clean = FALSE]
  /\ ops' = ops + 1
  /\ UNCHANGED <<mode, walOn, up, now, heap, alloc, mvcc, walBuf, snap, vecIds, colRows,
                 walFile, expiredKeys>>

NoPromise == [st |-> "none", version |-> 0, id |-> NoKey]
NoOp == [op |-> "none", key |-> NoKey, err |-> "ok", clean |-> FALSE]

\* the process is gone: everything it held in memory is lost
ProcessExit ==
  /\ up' = "down"
  /\ heap' = EmptyHeap
  /\ alloc' = 0
  /\ memTable' = EmptyTable
  /\ index' = {}
  /\ mvcc' = [k \in Keys |-> << >>]
  /\ walBuf' = << >>
  /\ snap' = NoSnapshot
  /\ recordsTotal' = 0
  /\ vecIds' = {}
  /\ colRows' = 0
  /\ expiredKeys' = {}
  /\ ack' = [k \in Keys |-> NoAck]
  /\ gone' = [k \in Keys |-> FALSE]
  /\ snapView' = [clean |-> FALSE, recs |-> [k \in Keys |-> NoView]]
  /\ ops' = ops + 1
  /\ UNCHANGED <<mode, walOn, now>>

\* KviEngine.Close: stops the background workers; wal.Close flushes the buffer
Close ==
  /\ up = "open"
  /\ walFile' = IF walOn THEN walFile \o FramesOf(walBuf, heap) ELSE walFile
  /\ last' = [NoOp EXCEPT !.op = "close"]
  /\ durable' = [k \in Keys |-> IF durable[k].st = "batch"
                                THEN [durable[k] EXCEPT !.st = "batch_closed"]
                                ELSE NoPromise]
  /\ ProcessExit

\* the process is killed: buffered WAL entries never reach the file
Crash ==
  /\ up = "open"
  /\ last' = [NoOp EXCEPT !.op = "crash"]
  /\ ProcessExit
  /\ UNCHANGED <<walFile, durable>>

RECURSIVE Replay(_, _)
\* the loop of recoverFromWAL over the entries ReadAll returned
Replay(entries, tbl) ==
  IF entries = << >> THEN tbl
  ELSE LET e == Head(entries)
       IN Replay(Tail(entries),
                 IF e.Op = "PUT" THEN [tbl EXCEPT ![e.Key] = [present |-> TRUE, rec |-> e.Record]]
                 ELSE IF e.Op = "DELETE"
                      THEN [tbl EXCEPT ![e.Key] = [present |-> FALSE, rec |-> NullRecord]]
                 ELSE tbl)

\* engine.recoverFromWAL: the memory table content rebuilt from the WAL file
recoverFromWAL(file) ==
  Replay(ReadAll(file), [k \in Keys |-> [present |-> FALSE, rec |-> NullRecord]])

\* engine.NewEngine on the existing files, then recoverFromWAL
Open ==
  /\ up = "down"
  /\ up' = "open"
  /\ LET tbl == IF walOn THEN recoverFromWAL(walFile)
                ELSE [k \in Keys |-> [present |-> FALSE, rec |-> NullRecord]]
         S == {k \in Keys : tbl[k].present}
         objOf == [k \in Keys |->
                     IF k \in S THEN Cardinality({j \in S : KeyRank(j) <= KeyRank(k)}) ELSE 0]
     IN /\ memTable' = objOf
        /\ heap' = [o \in Objs |-> IF \E k \in S : objOf[k] = o
                                   THEN tbl[CHOOSE k \in S : objOf[k] = o].rec
                                   ELSE NullRecord]
        /\ alloc' = Cardinality(S)
  /\ last' = [NoOp EXCEPT !.op = "open"]
  /\ UNCHANGED <<mode, walOn, now, ops, index, mvcc, walBuf, snap, recordsTotal, vecIds,
                 colRows, walFile, ack, gone, durable, snapView, expiredKeys>>

\* engine.NewEngine on an empty data directory
InitEngine ==
  /\ mode \in Modes
  /\ walOn \in (IF mode \in {"disk", "hybrid"} THEN BOOLEAN ELSE {FALSE})
  /\ up = "open"
  /\ now = 1
  /\ ops = 0
  /\ heap = EmptyHeap
  /\ alloc = 0
  /\ memTable = EmptyTable
  /\ index = {}
  /\ mvcc = [k \in Keys |-> << >>]
  /\ walBuf = << >>
  /\ snap = NoSnapshot
  /\ recordsTotal = 0
  /\ vecIds = {}
  /\ colRows = 0
  /\ walFile = << >>
  /\ ack = [k \in Keys |-> NoAck]
  /\ gone = [k \in Keys |-> FALSE]
  /\ durable = [k \in Keys |-> NoPromise]
  /\ snapView = [clean |-> FALSE, recs |-> [k \in Keys |-> NoView]]
  /\ last = NoOp
  /\ expiredKeys = {}

\* the records a caller passes to Put under key k: one with an expiry and no
\* id under either key, the two-field record under "b", records with a
\* vector under "a", and (where a log is written) a wide integer under "b"
Templates(k) ==
  {NewRecord(NoKey, DataOne, 0, 1)}
    \cup (IF k = "b" THEN {NewRecord(k, DataTwo, 0, 0)} ELSE {})
    \cup (IF mode = "vector" /\ k = "a"
          THEN {NewRecord(k, DataOne, VectorDim, 0), NewRecord(k, DataOne, VectorDim + 1, 0)}
          ELSE {})
    \cup (IF walOn /\ k = "b" THEN {NewRecord(k, DataWide, 0, 0)} ELSE {})

\* the key sets a caller passes to BatchPut
BatchInputs == {{"b"}, Keys}

\* a snapshot value as the caller may hand it back: untouched or altered
SnapInputs == {snap, [snap EXCEPT !.Version = @ + 1]}


----------------------------------------------------------------------------
(* The WAL used on its own: Append, Flush, ReadAll, Close, reopen, crashes *)

\* entries one caller appends in a run of the log
MaxAppends == 3
\* process crashes in a run of the log
MaxCrashes == 1
\* frames damaged on disk in a run of the log
MaxDamage == 1

VARIABLES
  wFile,     \* the log file, as a sequence of units
  wBuf,      \* WAL.buffer
  wState,    \* "open" | "closed" | "hung" (ReadAll blocked on its own lock)
  wRead,     \* what the last completed ReadAll returned
  wLog,      \* history: the entries appended, as Append buffered them
  wFrames,   \* history: the frames written to the file and what became of them
  wCrashes,  \* history: number of crashes
  wDamage    \* history: number of frames damaged on disk

walVars == <<wFile, wBuf, wState, wRead, wLog, wFrames, wCrashes, wDamage>>

\* the records the appended entries point to
WalPool ==
  << [Stamp(NewRecord("a", DataOne, 0, 0), "a", 1) EXCEPT !.checksum = "a1 m=+1vr1"],
     [Stamp(NewRecord("b", DataWide, 0, 0), "b", 1) EXCEPT !.checksum = "b1 m=+1tsr1"] >>

\* the entries a caller appends
WalInputs == {LogEntry("PUT", "a", 1), LogEntry("PUT", "b", 2), LogEntry("DELETE", "a", 0)}

NoRead == [valid |-> FALSE, entries |-> << >>]

InitWal ==
  /\ wFile = << >>
  /\ wBuf = << >>
  /\ wState = "open"
  /\ wRead = NoRead
  /\ wLog = << >>
  /\ wFrames = << >>
  /\ wCrashes = 0
  /\ wDamage = 0

RECURSIVE FrameLog(_, _, _, _)
\* history of a flush that stops after n units: a frame is "ok" when all of
\* it was written, "torn" when only a part of it was
FrameLog(buf, h, pos, n) ==
  IF buf = << >> \/ n = 0 THEN << >>
  ELSE LET ser == MarshalEntry(Head(buf), h)
           size == 1 + PayloadLen(ser)
       IN IF n >= size
          THEN <<[pos |-> pos, ser |-> ser, size |-> size, state |-> "ok"]>>
                 \o FrameLog(Tail(buf), h, pos + size, n - size)
          ELSE <<[pos |-> pos, ser |-> ser, size |-> n, state |-> "torn"]>>

\* WAL.Append
WalAppend(e) ==
  /\ wState = "open"
  /\ LET t == Len(wLog) + 1
     IN /\ wBuf' = WalBufAfter(wBuf, e, t, WalPool)
        /\ wFile' = WalFileAfter(wFile, wBuf, e, t, WalPool)
        /\ wLog' = Append(wLog, AppendEntry(e, t, WalPool))
  /\ wRead' = NoRead
  /\ UNCHANGED <<wState, wFrames, wCrashes, wDamage>>

\* WAL.Flush
WalFlush ==
  /\ wState = "open"
  /\ wFile' = wFile \o FramesOf(wBuf, WalPool)
  /\ wFrames' = wFrames \o FrameLog(wBuf, WalPool, Len(wFile) + 1, Len(FramesOf(wBuf, WalPool)))
  /\ wBuf' = << >>
  /\ UNCHANGED <<wState, wRead, wLog, wCrashes, wDamage>>

\* WAL.ReadAll: with entries still buffered, Flush blocks on the lock ReadAll
\* already holds (after it emptied the buffer) and the call never returns
WalReadAll ==
  /\ wState = "open"
  /\ IF wBuf = << >>
     THEN /\ wRead' = [valid |-> TRUE, entries |-> ReadAll(wFile)]
          /\ UNCHANGED <<wState, wBuf>>
     ELSE /\ wState' = "hung"
          /\ wBuf' = << >>
          /\ UNCHANGED wRead
  /\ UNCHANGED <<wFile, wLog, wFrames, wCrashes, wDamage>>

\* WAL.Close
WalClose ==
  /\ wState = "open"
  /\ wFile' = wFile \o FramesOf(wBuf, WalPool)
  /\ wFrames' = wFrames \o FrameLog(wBuf, WalPool, Len(wFile) + 1, Len(FramesOf(wBuf, WalPool)))
  /\ wBuf' = << >>
  /\ wState' = "closed"
  /\ wRead' = NoRead
  /\ UNCHANGED <<wLog, wCrashes, wDamage>>

\* the process dies; if a flush was under way, n units of it reached the file
WalCrash(n) ==
  /\ wState \in {"open", "hung"}
  /\ n <= Len(FramesOf(wBuf, WalPool))
  /\ wFile' = wFile \o SubSeq(FramesOf(wBuf, WalPool), 1, n)
  /\ wFrames' = wFrames \o FrameLog(wBuf, WalPool, Len(wFile) + 1, n)
  /\ wBuf' = << >>
  /\ wState' = "closed"
  /\ wRead' = NoRead
  /\ wCrashes' = wCrashes + 1
  /\ UNCHANGED <<wLog, wDamage>>

\* wal.OpenWAL on the existing file (O_APPEND, nothing is truncated)
WalOpen ==
  /\ wState = "closed"
  /\ wState' = "open"
  /\ UNCHANGED <<wFile, wBuf, wRead, wLog, wFrames, wCrashes, wDamage>>

\* the payload of the j-th frame is damaged on disk while the log is closed:
\* "garbled" no longer parses, "flipped" parses but fails the CRC
WalDamage(j, kind) ==
  /\ wState = "closed"
  /\ j \in 1..Len(wFrames)
  /\ wFrames[j].state = "ok"
  /\ LET f == wFrames[j]
         hit(i) == i > f.pos /\ i < f.pos + f.size
     IN wFile' = [i \in 1..Len(wFile) |->
                    IF ~hit(i) THEN wFile[i]
                    ELSE IF kind = "garbled" THEN BadUnit
                    ELSE [wFile[i] EXCEPT !.ser.timestamp = @ + MaxAppends]]
  /\ wFrames' = [wFrames EXCEPT ![j].state = kind]
  /\ wDamage' = wDamage + 1
  /\ UNCHANGED <<wBuf, wState, wRead, wLog, wCrashes>>

----------------------------------------------------------------------------
(* HybridEngine with its MemoryEngine, DiskEngine and ColumnarEngine tiers  *)
(* and the asynchronous write pipeline.  Callers run concurrently; every    *)
(* step below is one critical section of one tier.                          *)

\* calls (put, get, delete, close) started in a run
MaxCalls == 4

\* capacity of HybridEngine.writeChan
QueueCap == 1000

\* config.DefaultConfig: EnableWAL
HybridEnableWAL == TRUE

HKeys == {"a"}
DiskKeys == HKeys \cup {NoKey}
Callers == {"c1", "c2"}

\* a record of the hybrid engine: Record.ID and its Data (one value)
HRec(id, val) == [some |-> TRUE, id |-> id, val |-> val]
NoRec == [some |-> FALSE, id |-> NoKey, val |-> 0]

\* the records callers pass to Put under key k; none carries Data["vector"]
HybridInputs(k) == {HRec(k, 1), HRec(k, 2), HRec(NoKey, 1)}

VARIABLES
  hMem,      \* MemoryEngine.records
  hDisk,     \* DiskEngine.tree
  hCol,      \* ColumnarEngine.records
  hRows,     \* rows inserted into the columnar store
  hQueue,    \* HybridEngine.writeChan
  hWal,      \* the disk tier's WAL file
  hCtx,      \* "live" | "cancelled"
  hWorker,   \* "running" | "stopped"
  hUp,       \* "open" | "closed"
  hThr,      \* caller -> the call it is in and where
  hCalls,    \* calls started so far
  hAck,      \* history: key -> record of the last put that returned ok, until the next put/delete
  hGone,     \* history: key -> a delete has returned and no put followed
  hPromise,  \* history: key -> record acknowledged before close() was invoked (held to after reopening)
  hRet       \* history: the last return of a call and what was expected of it

hybVars == <<hMem, hDisk, hCol, hRows, hQueue, hWal, hCtx, hWorker, hUp, hThr, hCalls,
             hAck, hGone, hPromise, hRet>>

NoWant == [ack |-> NoRec, gone |-> FALSE, dur |-> NoRec]
IdleThr == [pc |-> "idle", key |-> NoKey, rec |-> NoRec, want |-> NoWant, solo |-> TRUE]
NoRet == [op |-> "none", key |-> NoKey, ok |-> TRUE, rec |-> NoRec, want |-> NoWant]

\* wal.WriteEntry(op, key, record): one entry appended to the log
WriteEntry(log, op, key) == Append(log, [op |-> op, key |-> key])

InitHybrid ==
  /\ hMem = [k \in HKeys |-> NoRec]
  /\ hDisk = [k \in DiskKeys |-> NoRec]
  /\ hCol = [k \in DiskKeys |-> NoRec]
  /\ hRows = 0
  /\ hQueue = << >>
  /\ hWal = << >>
  /\ hCtx = "live"
  /\ hWorker = "running"
  /\ hUp = "open"
  /\ hThr = [c \in Callers |-> IdleThr]
  /\ hCalls = 0
  /\ hAck = [k \in HKeys |-> NoRec]
  /\ hGone = [k \in HKeys |-> FALSE]
  /\ hPromise = [k \in HKeys |-> NoRec]
  /\ hRet = NoRet

\* another caller is inside a put or a delete of key k
Mutating(c, k) ==
  \E d \in Callers \ {c} :
    hThr[d].key = k /\ hThr[d].pc \in {"put_enqueue", "del_col", "del_disk"}

\* a put or delete of k begins: gets of k in flight are no longer held to
\* what was true when they were invoked, and a put or delete of k in flight
\* no longer runs alone
VoidWants(thr, k) ==
  [d \in Callers |-> IF thr[d].key = k /\ thr[d].pc # "idle"
                     THEN [thr[d] EXCEPT !.want = NoWant, !.solo = FALSE] ELSE thr[d]]

\* HybridEngine.Put, step 1: h.memory.Put
HPutStart(c, k, rec) ==
  /\ hUp = "open" /\ hThr[c].pc = "idle"
  /\ hMem' = [hMem EXCEPT ![k] = rec]
  /\ hThr' = [VoidWants(hThr, k) EXCEPT ![c] = [IdleThr EXCEPT !.pc = "put_enqueue",
                                                             !.key = k, !.rec = rec,
                                                             !.solo = ~Mutating(c, k)]]
  /\ hAck' = [hAck EXCEPT ![k] = NoRec]
  /\ hGone' = [hGone EXCEPT ![k] = FALSE]
  /\ hPromise' = [hPromise EXCEPT ![k] = NoRec]
  /\ hCalls' = hCalls + 1
  /\ UNCHANGED <<hDisk, hCol, hRows, hQueue, hWal, hCtx, hWorker, hUp, hRet>>

\* HybridEngine.Put, step 2: send on writeChan, or give up after 100 ms
HPutEnqueue(c) ==
  /\ hThr[c].pc = "put_enqueue"
  /\ LET k == hThr[c].key
         sent == Len(hQueue) < QueueCap
     IN /\ hQueue' = IF sent THEN Append(hQueue, hThr[c].rec) ELSE hQueue
        /\ hAck' = [hAck EXCEPT ![k] = IF sent /\ hThr[c].solo THEN hThr[c].rec ELSE NoRec]
        /\ hRet' = [NoRet EXCEPT !.op = "put", !.key = k, !.ok = sent]
  /\ hThr' = [hThr EXCEPT ![c] = IdleThr]
  /\ UNCHANGED <<hMem, hDisk, hCol, hRows, hWal, hCtx, hWorker, hUp, hCalls, hGone, hPromise>>

\* HybridEngine.Get, step 1: h.memory.Get
HGetStart(c, k) ==
  /\ hUp = "open" /\ hThr[c].pc = "idle"
  /\ LET want == [ack |-> hAck[k], gone |-> hGone[k],
                  dur |-> IF hCtx = "live" THEN hPromise[k] ELSE NoRec]
     IN IF hMem[k].some
        THEN /\ hRet' = [op |-> "get", key |-> k, ok |-> TRUE, rec |-> hMem[k], want |-> want]
             /\ UNCHANGED hThr
        ELSE /\ hThr' = [hThr EXCEPT ![c] = [IdleThr EXCEPT !.pc = "get_disk", !.key = k,
                                                            !.want = want]]
             /\ UNCHANGED hRet
  /\ hCalls' = hCalls + 1
  /\ UNCHANGED <<hMem, hDisk, hCol, hRows, hQueue, hWal, hCtx, hWorker, hUp,
                 hAck, hGone, hPromise>>

\* HybridEngine.Get, step 2: h.disk.Get
HGetDisk(c) ==
  /\ hThr[c].pc = "get_disk"
  /\ LET k == hThr[c].key
     IN IF hDisk[k].some
        THEN /\ hThr' = [hThr EXCEPT ![c].pc = "get_fill", ![c].rec = hDisk[k]]
             /\ UNCHANGED hRet
        ELSE /\ hRet' = [op |-> "get", key |-> k, ok |-> FALSE, rec |-> NoRec,
                         want |-> hThr[c].want]
             /\ hThr' = [hThr EXCEPT ![c] = IdleThr]
  /\ UNCHANGED <<hMem, hDisk, hCol, hRows, hQueue, hWal, hCtx, hWorker, hUp, hCalls,
                 hAck, hGone, hPromise>>

\* HybridEngine.Get, step 3: h.memory.Put of the record read from disk
HGetFill(c) ==
  /\ hThr[c].pc = "get_fill"
  /\ hMem' = [hMem EXCEPT ![hThr[c].key] = hThr[c].rec]
  /\ hRet' = [op |-> "get", key |-> hThr[c].key, ok |-> TRUE, rec |-> hThr[c].rec,
              want |-> hThr[c].want]
  /\ hThr' = [hThr EXCEPT ![c] = IdleThr]
  /\ UNCHANGED <<hDisk, hCol, hRows, hQueue, hWal, hCtx, hWorker, hUp, hCalls,
                 hAck, hGone, hPromise>>

\* HybridEngine.Delete, step 1: h.memory.Delete (h.vectorStore.Delete finds nothing)
HDeleteStart(c, k) ==
  /\ hUp = "open" /\ hThr[c].pc = "idle"
  /\ hMem' = [hMem EXCEPT ![k] = NoRec]
  /\ hThr' = [VoidWants(hThr, k) EXCEPT ![c] = [IdleThr EXCEPT !.pc = "del_col", !.key = k,
                                                             !.solo = ~Mutating(c, k)]]
  /\ hAck' = [hAck EXCEPT ![k] = NoRec]
  /\ hGone' = [hGone EXCEPT ![k] = FALSE]
  /\ hPromise' = [hPromise EXCEPT ![k] = NoRec]
  /\ hCalls' = hCalls + 1
  /\ UNCHANGED <<hDisk, hCol, hRows, hQueue, hWal, hCtx, hWorker, hUp, hRet>>

\* HybridEngine.Delete, step 2: h.columnStore.Delete
HDeleteCol(c) ==
  /\ hThr[c].pc = "del_col"
  /\ hCol' = [hCol EXCEPT ![hThr[c].key] = NoRec]
  /\ hThr' = [hThr EXCEPT ![c].pc = "del_disk"]
  /\ UNCHANGED <<hMem, hDisk, hRows, hQueue, hWal, hCtx, hWorker, hUp, hCalls,
                 hAck, hGone, hPromise, hRet>>

\* HybridEngine.Delete, step 3: h.disk.Delete, and return
HDeleteDisk(c) ==
  /\ hThr[c].pc = "del_disk"
  /\ LET k == hThr[c].key
     IN /\ hWal' = IF HybridEnableWAL THEN WriteEntry(hWal, "DELETE", k) ELSE hWal
        /\ hDisk' = [hDisk EXCEPT ![k] = NoRec]
        /\ hGone' = [hGone EXCEPT ![k] = hThr[c].solo]
        /\ hRet' = [NoRet EXCEPT !.op = "delete", !.key = k]
  /\ hThr' = [hThr EXCEPT ![c] = IdleThr]
  /\ UNCHANGED <<hMem, hCol, hRows, hQueue, hCtx, hWorker, hUp, hCalls, hAck, hPromise>>

\* asyncWorker: one record taken from writeChan and written to disk and columnar
HWorker ==
  /\ hWorker = "running"
  /\ hQueue # << >>
  /\ LET rec == Head(hQueue)
     IN /\ hWal' = IF HybridEnableWAL THEN WriteEntry(hWal, "PUT", rec.id) ELSE hWal
        /\ hDisk' = [hDisk EXCEPT ![rec.id] = rec]
        /\ hCol' = [hCol EXCEPT ![rec.id] = rec]
  /\ hRows' = hRows + 1
  /\ hQueue' = Tail(hQueue)
  /\ UNCHANGED <<hMem, hCtx, hWorker, hUp, hThr, hCalls, hAck, hGone, hPromise, hRet>>

\* a worker that returns as soon as the context is done, whatever is queued
HWorkerExit_NoDrain ==
  /\ hWorker = "running"
  /\ hCtx = "cancelled"
  /\ hWorker' = "stopped"
  /\ UNCHANGED <<hMem, hDisk, hCol, hRows, hQueue, hWal, hCtx, hUp, hThr, hCalls,
                 hAck, hGone, hPromise, hRet>>

\* asyncWorker: the context is done and the channel is empty
HWorkerExit ==
  /\ hWorker = "running"
  /\ hCtx = "cancelled"
  /\ hQueue = << >>
  /\ hWorker' = "stopped"
  /\ UNCHANGED <<hMem, hDisk, hCol, hRows, hQueue, hWal, hCtx, hUp, hThr, hCalls,
                 hAck, hGone, hPromise, hRet>>

\* HybridEngine.Close, step 1: h.cancel(), then wait for the worker
HCloseStart(c) ==
  /\ hUp = "open" /\ hThr[c].pc = "idle" /\ hCtx = "live"
  /\ hCtx' = "cancelled"
  /\ hThr' = [hThr EXCEPT ![c] = [IdleThr EXCEPT !.pc = "close_wait"]]
  /\ hPromise' = hAck
  /\ hCalls' = hCalls + 1
  /\ UNCHANGED <<hMem, hDisk, hCol, hRows, hQueue, hWal, hWorker, hUp, hAck, hGone, hRet>>

\* HybridEngine.Close, step 2: the worker is gone; the tiers are closed
HCloseFinish(c) ==
  /\ hThr[c].pc = "close_wait"
  /\ hWorker = "stopped"
  /\ hUp' = "closed"
  /\ hThr' = [hThr EXCEPT ![c] = IdleThr]
  /\ hAck' = [k \in HKeys |-> NoRec]
  /\ hGone' = [k \in HKeys |-> FALSE]
  /\ hRet' = [NoRet EXCEPT !.op = "close"]
  /\ UNCHANGED <<hMem, hDisk, hCol, hRows, hQueue, hWal, hCtx, hWorker, hCalls, hPromise>>

\* NewHybridEngine on the same data directory: every tier starts empty
\* (NewDiskEngine skips WAL recovery), a new channel, a new worker
HOpen ==
  /\ hUp = "closed"
  /\ \A c \in Callers : hThr[c].pc = "idle"
  /\ hMem' = [k \in HKeys |-> NoRec]
  /\ hDisk' = [k \in DiskKeys |-> NoRec]
  /\ hCol' = [k \in DiskKeys |-> NoRec]
  /\ hRows' = 0
  /\ hQueue' = << >>
  /\ hCtx' = "live"
  /\ hWorker' = "running"
  /\ hUp' = "open"
  /\ hAck' = [k \in HKeys |-> NoRec]
  /\ hGone' = [k \in HKeys |-> FALSE]
  /\ hRet' = [NoRet EXCEPT !.op = "open"]
  /\ UNCHANGED <<hWal, hThr, hCalls, hPromise>>

----------------------------------------------------------------------------
(* Time travel on one key: KviEngine.Put feeding MVCCManager, KviEngine.GetAsOf *)

\* puts issued on the key in one run
MaxPuts == 11

VARIABLES
  tNow,      \* time.Now().UnixNano() of the last put
  tObjs,     \* record object -> its Data and Version as they are now (0: not allocated)
  tChain,    \* MVCCManager.versions[K]
  tPuts,     \* history: the puts, in order: version assigned, object passed, data written
  tRet       \* the last return of get_as_of / get_latest

mvccVars == <<tNow, tObjs, tChain, tPuts, tRet>>

TObjs == 1..MaxPuts
NoObj == [some |-> FALSE, data |-> 0, version |-> 0]
NoQuery == [op |-> "none", i |-> 0, err |-> "ok", rec |-> 0, data |-> 0, version |-> 0]

InitMvcc ==
  /\ tNow = 0
  /\ tObjs = [o \in TObjs |-> NoObj]
  /\ tChain = << >>
  /\ tPuts = << >>
  /\ tRet = NoQuery

\* KviEngine.Put(K, value) where value is the record object o and the caller
\* has set its Data to d; the clock has advanced since the previous put
TPut(o, d) ==
  /\ tNow' = tNow + 1
  /\ tObjs' = [tObjs EXCEPT ![o] = [some |-> TRUE, data |-> d, version |-> tNow']]
  /\ tChain' = AddVersion(tChain, o, tNow', tNow')
  /\ tPuts' = Append(tPuts, [tx |-> tNow', obj |-> o, data |-> d])
  /\ tRet' = NoQuery

\* Put of a record object the caller has just built
TPutNew == TPut(Len(tPuts) + 1, Len(tPuts) + 1)

\* get / modify / put: the object of the previous put, changed and put again
TPutAgain == tPuts # << >> /\ TPut(tPuts[Len(tPuts)].obj, Len(tPuts) + 1)

\* what the caller finds behind the pointer a lookup returned
Deref(op, i, res) ==
  [op |-> op, i |-> i, err |-> res.err, rec |-> res.rec,
   data |-> IF res.err = "ok" THEN tObjs[res.rec].data ELSE 0,
   version |-> IF res.err = "ok" THEN tObjs[res.rec].version ELSE 0]

\* KviEngine.GetAsOf(K, vi) for the version vi of the i-th put
TGetAsOf(i) ==
  /\ tRet' = Deref("as_of", i, MvccGet(tChain, tPuts[i].tx))
  /\ UNCHANGED <<tNow, tObjs, tChain, tPuts>>

\* MVCCManager.GetLatest(K)
TGetLatest ==
  /\ tPuts # << >>
  /\ tRet' = Deref("latest", Len(tPuts), GetLatest(tChain))
  /\ UNCHANGED <<tNow, tObjs, tChain, tPuts>>

----------------------------------------------------------------------------
(* HNSW vector index: internal/vector/hnsw.go *)

\* Add and Delete calls per run
MaxVecCalls == 5
\* the highest level randomLevel assigns (15 in hnsw.go)
TopLevel == 1
\* efConst of the index
HnswEf == 2
\* dim of the index
HnswDim == 2

Levels == 0..TopLevel

Min(a, b) == IF a < b THEN a ELSE b

\* the ids and the vector each id is inserted with; every vector has norm 5
\* and no vector is at the same distance from two others
VIds == {"v1", "v2", "v3", "v4", "v5"}
VecOf == [v1 |-> <<5, 0>>, v2 |-> <<4, 3>>, v3 |-> <<3, 4>>, v4 |-> <<-4, 3>>, v5 |-> <<-5, 0>>]
ZeroVec == <<0, 0>>

DotProduct(a, b) == a[1] * b[1] + a[2] * b[2]

\* CosineDistance, times 25: for vectors of norm 5 it is 25 - a.b exactly;
\* a zero vector is at the maximum distance 1.0
CosineDistance(a, b) ==
  IF DotProduct(a, a) = 0 \/ DotProduct(b, b) = 0 THEN 25 ELSE 25 - DotProduct(a, b)

\* Node; Friends[l] is empty (nil) on the levels the node has no list for
NoNode == [some |-> FALSE, vec |-> ZeroVec, level |-> 0, friends |-> [l \in Levels |-> << >>]]
NewNode(vec, level) == [NoNode EXCEPT !.some = TRUE, !.vec = vec, !.level = level]

\* h.nodes[id] lookup succeeds
Exists(nodes, id) == id \in VIds /\ nodes[id].some
NodeIds(nodes) == {id \in VIds : nodes[id].some}

DistTo(nodes, q, id) == CosineDistance(q, nodes[id].vec)

\* heads of the two heaps of searchLayer
Closest(nodes, q, S) == CHOOSE c \in S : \A d \in S : DistTo(nodes, q, c) <= DistTo(nodes, q, d)
Worst(nodes, q, S) == CHOOSE c \in S : \A d \in S : DistTo(nodes, q, c) >= DistTo(nodes, q, d)

RECURSIVE SortedByDist(_, _, _)
\* the result heap popped into a slice, nearest first
SortedByDist(nodes, q, S) ==
  IF S = {} THEN << >>
  ELSE LET c == Closest(nodes, q, S)
       IN <<c>> \o SortedByDist(nodes, q, S \ {c})

RECURSIVE Explore(_, _, _, _, _, _)
\* searchLayer, the loop over currNode.Friends[level] from position i
Explore(nodes, q, ef, fl, i, st) ==
  IF i > Len(fl) THEN st
  ELSE LET f == fl[i]
           st1 == [st EXCEPT !.visited = @ \cup {f}]
       IN IF f \in st.visited THEN Explore(nodes, q, ef, fl, i + 1, st)
          ELSE IF ~Exists(nodes, f) THEN Explore(nodes, q, ef, fl, i + 1, st1)
          ELSE IF \/ Cardinality(st1.results) < ef
                  \/ DistTo(nodes, q, f) < DistTo(nodes, q, Worst(nodes, q, st1.results))
               THEN LET r1 == st1.results \cup {f}
                        r2 == IF Cardinality(r1) > ef THEN r1 \ {Worst(nodes, q, r1)} ELSE r1
                    IN Explore(nodes, q, ef, fl, i + 1,
                               [st1 EXCEPT !.cands = @ \cup {f}, !.results = r2])
               ELSE Explore(nodes, q, ef, fl, i + 1, st1)

RECURSIVE SearchLoop(_, _, _, _, _)
\* searchLayer, the loop over the candidate heap
SearchLoop(nodes, q, ef, level, st) ==
  IF st.cands = {} THEN st.results
  ELSE LET c == Closest(nodes, q, st.cands)
           st1 == [st EXCEPT !.cands = @ \ {c}]
       IN IF st.results # {} /\ DistTo(nodes, q, c) > DistTo(nodes, q, Worst(nodes, q, st.results))
          THEN st.results
          ELSE SearchLoop(nodes, q, ef, level,
                          Explore(nodes, q, ef, nodes[c].friends[level], 1, st1))

\* HNSWIndex.searchLayer: the ids found, nearest first
searchLayer(nodes, q, entry, ef, level) ==
  SortedByDist(nodes, q,
    SearchLoop(nodes, q, ef, level,
               [cands |-> {entry}, results |-> {entry}, visited |-> {entry}]))

\* the first n elements of a slice
Take(s, n) == SubSeq(s, 1, IF n < Len(s) THEN n ELSE Len(s))

\* HNSWIndex.selectNeighbors
selectNeighbors(candidates, M) == Take(candidates, M)

\* selectNeighborsById: the (id, dist) pair made for ids[i]; an id that is not
\* in h.nodes leaves the zero value of the pair
PairOf(nodes, q, id) ==
  IF Exists(nodes, id) THEN [id |-> id, dist |-> DistTo(nodes, q, id)]
  ELSE [id |-> "", dist |-> 0]

RECURSIVE SortPairs(_)
\* selectNeighborsById: the exchange sort by distance
SortPairs(pairs) ==
  IF pairs = << >> THEN << >>
  ELSE LET i == CHOOSE i \in 1..Len(pairs) :
                  /\ \A j \in 1..Len(pairs) : pairs[i].dist <= pairs[j].dist
                  /\ \A j \in 1..(i - 1) : pairs[j].dist > pairs[i].dist
       IN <<pairs[i]>> \o SortPairs(SubSeq(pairs, 1, i - 1) \o SubSeq(pairs, i + 1, Len(pairs)))

\* HNSWIndex.selectNeighborsById
selectNeighborsById(nodes, q, ids, M) ==
  LET sorted == SortPairs([i \in 1..Len(ids) |-> PairOf(nodes, q, ids[i])])
  IN [i \in 1..(IF M < Len(sorted) THEN M ELSE Len(sorted)) |-> sorted[i].id]

\* a cap that allows the level-0 fan-out on every level
Cap_Flat(M, l) == M * 2

\* the connection cap of a level
Cap(M, l) == IF l = 0 THEN M * 2 ELSE M

RECURSIVE Greedy(_, _, _, _)
\* the "for changed" loop of Add and Search on level l: move to the nearest
\* friend until none is nearer
Greedy(nodes, q, curr, l) ==
  LET fl == nodes[curr].friends[l]
      near == {fl[i] : i \in {j \in 1..Len(fl) :
                 Exists(nodes, fl[j]) /\ DistTo(nodes, q, fl[j]) < DistTo(nodes, q, curr)}}
  IN IF near = {} THEN curr ELSE Greedy(nodes, q, Closest(nodes, q, near), l)

RECURSIVE Descend(_, _, _, _, _)
\* the descent from level l down to level stop + 1
Descend(nodes, q, curr, l, stop) ==
  IF l <= stop THEN curr
  ELSE Descend(nodes, q, Greedy(nodes, q, curr, l), l - 1, stop)

RECURSIVE Connect(_, _, _, _, _, _)
\* Add, the loop "for _, friendID := range friends" on level l from position i:
\* append id to each friend's list and prune the list when it is over the cap
\* (the new node is not in h.nodes yet)
Connect(nodes, M, id, l, friends, i) ==
  IF i > Len(friends) THEN nodes
  ELSE LET f == friends[i]
           grown == Append(nodes[f].friends[l], id)
           kept == IF Len(grown) > Cap(M, l)
                   THEN selectNeighborsById(nodes, nodes[f].vec, grown, Cap(M, l))
                   ELSE grown
       IN IF Exists(nodes, f)
          THEN Connect([nodes EXCEPT ![f].friends[l] = kept], M, id, l, friends, i + 1)
          ELSE Connect(nodes, M, id, l, friends, i + 1)

RECURSIVE InsertAt(_, _, _, _, _, _)
\* Add, the loop over the levels l down to 0: st carries the graph, the new
\* node's lists and the entry point of the next level
InsertAt(M, ef, id, vec, l, st) ==
  IF l < 0 THEN st
  ELSE LET candidates == searchLayer(st.nodes, vec, st.curr, ef, l)
           friends == selectNeighbors(candidates, Cap(M, l))
       IN InsertAt(M, ef, id, vec, l - 1,
                   [nodes |-> Connect(st.nodes, M, id, l, friends, 1),
                    mine |-> [st.mine EXCEPT ![l] = friends],
                    curr |-> IF Len(candidates) > 0 THEN candidates[1] ELSE st.curr])

VARIABLES
  vM,         \* HNSWIndex.M
  vNodes,     \* HNSWIndex.nodes
  vEnter,     \* HNSWIndex.enterPoint (its id; "": nil)
  vMaxLevel,  \* HNSWIndex.maxLevel
  vCalls      \* Add and Delete calls so far

hnswVars == <<vM, vNodes, vEnter, vMaxLevel, vCalls>>

\* the values of M the index is built with
HnswMs == {1, 3}

\* randomLevel: level++ while rand.Float64() < 1/ln(M), at most up to the top
\* level; for M <= 2 the coefficient is above 1 and the loop always runs to the top
RandomLevels(M) == IF M <= 2 THEN {TopLevel} ELSE Levels

InitHnsw ==
  /\ vM \in HnswMs
  /\ vNodes = [id \in VIds |-> NoNode]
  /\ vEnter = ""
  /\ vMaxLevel = 0
  /\ vCalls = 0

\* HNSWIndex.Add(id, vector) with the level randomLevel drew; a vector of the
\* wrong dimension and an id already in the index are refused without effect
VAdd(id, level) ==
  /\ Len(VecOf[id]) = HnswDim
  /\ ~Exists(vNodes, id)
  /\ vCalls' = vCalls + 1
  /\ vM' = vM
  /\ IF vEnter = ""
     THEN /\ vNodes' = [vNodes EXCEPT ![id] = NewNode(VecOf[id], level)]
          /\ vEnter' = id
          /\ vMaxLevel' = level
     ELSE LET curr == Descend(vNodes, VecOf[id], vEnter, vMaxLevel, level)
              st == InsertAt(vM, HnswEf, id, VecOf[id], Min(level, vMaxLevel),
                             [nodes |-> vNodes, mine |-> NoNode.friends, curr |-> curr])
          IN /\ vNodes' = [st.nodes EXCEPT
                             ![id] = [NewNode(VecOf[id], level) EXCEPT !.friends = st.mine]]
             /\ vEnter' = IF level > vMaxLevel THEN id ELSE vEnter
             /\ vMaxLevel' = IF level > vMaxLevel THEN level ELSE vMaxLevel

Has(q, x) == \E i \in 1..Len(q) : q[i] = x
Without(q, x) == SelectSeq(q, LAMBDA y : y # x)

\* HNSWIndex.Delete(id); when the entry point is deleted, next is the node the
\* iteration over the map h.nodes comes to first ("": no node is left)
VDelete(id, next) ==
  /\ Exists(vNodes, id)
  /\ vCalls' = vCalls + 1
  /\ vM' = vM
  /\ vNodes' = [n \in VIds |->
                  IF n = id THEN NoNode
                  ELSE IF ~vNodes[n].some THEN vNodes[n]
                  ELSE [vNodes[n] EXCEPT !.friends =
                          [l \in Levels |->
                             IF Has(vNodes[id].friends[l], n)
                             THEN Without(vNodes[n].friends[l], id)
                             ELSE vNodes[n].friends[l]]]]
  /\ IF vEnter = id
     THEN /\ next \in NodeIds(vNodes) \ {id} \/ (next = "" /\ NodeIds(vNodes) = {id})
          /\ vEnter' = next
     ELSE /\ next = ""
          /\ vEnter' = vEnter
  /\ vMaxLevel' = vMaxLevel

\* HNSWIndex.Search(query, k): the ids with their scores (1 - distance, times 25)
Search(nodes, enter, maxLevel, q, k) ==
  IF enter = "" \/ NodeIds(nodes) = {} THEN << >>
  ELSE IF Len(q) # HnswDim THEN << >>
  ELSE LET curr == Descend(nodes, q, enter, maxLevel, 0)
           candidates == searchLayer(nodes, q, curr, IF HnswEf < k THEN k ELSE HnswEf, 0)
       IN [i \in 1..Min(k, Len(candidates)) |->
             [id |-> candidates[i], score |-> 25 - DistTo(nodes, q, candidates[i])]]

----------------------------------------------------------------------------
(* ColumnarStore: columns, block sealing and aggregates *)

\* InsertBatch calls per run
MaxBatches == 3
\* records per batch
MaxBatchLen == 2

\* the block sizes the store is built with
BlockSizes == {1, 2, 3}

\* an interface{} value with its dynamic Go type; Nil is the nil interface
GoInt(n) == [t |-> "int", v |-> n]
GoFloat(n) == [t |-> "float64", v |-> n]
GoInt64(n) == [t |-> "int64", v |-> n]
GoUint64(n) == [t |-> "uint64", v |-> n]
GoString(x) == [t |-> "string", v |-> x]
Nil == [t |-> "nil", v |-> 0]

\* the records inserted: ID, Version and the entries of Data (Nil: no entry)
DataCols == {"x", "y"}
ColNames == {"id", "version"} \cup DataCols
Rows ==
  { [id |-> "r1", version |-> 1, x |-> GoInt(2), y |-> Nil],
    [id |-> "r2", version |-> 1, x |-> GoInt(1), y |-> GoFloat(3)],
    [id |-> "r3", version |-> 1, x |-> GoInt(3), y |-> GoFloat(1)],
    [id |-> "r4", version |-> 1, x |-> Nil, y |-> GoFloat(2)] }
RowBatches == UNION {[1..n -> Rows] : n \in 1..MaxBatchLen}

\* inferColumnType
inferColumnType(val) ==
  IF val.t \in {"int", "int64", "int32"} THEN "TypeInt"
  ELSE IF val.t \in {"float64", "float32"} THEN "TypeFloat"
  ELSE "TypeString"

\* Column; packed: len(Compressed) > 0, and Compressed holds the rows as
\* encodeValue wrote them
NoColumn == [some |-> FALSE, type |-> "TypeString", data |-> << >>, packed |-> FALSE,
             compressed |-> << >>, min |-> Nil, max |-> Nil, rowCount |-> 0]

\* InsertBatch: append val to the column, or create the column with it
AppendValue(col, type, val) ==
  IF col.some
  THEN [col EXCEPT !.data = Append(@, val), !.rowCount = @ + 1]
  ELSE [NoColumn EXCEPT !.some = TRUE, !.type = type, !.data = <<val>>, !.rowCount = 1]

\* InsertBatch: the columns after the values of one record are appended
InsertRecord(columns, rec) ==
  [name \in ColNames |->
     IF name = "id" THEN AppendValue(columns[name], "TypeString", GoString(rec.id))
     ELSE IF name = "version" THEN AppendValue(columns[name], "TypeInt", GoUint64(rec.version))
     ELSE IF rec[name] = Nil THEN columns[name]
     ELSE AppendValue(columns[name], inferColumnType(rec[name]), rec[name])]

RECURSIVE InsertRecords(_, _, _)
InsertRecords(columns, records, i) ==
  IF i > Len(records) THEN columns
  ELSE InsertRecords(InsertRecord(columns, records[i]), records, i + 1)

\* encodeValue followed by decodeValue: the type assertion val.(int64),
\* val.(float64) or val.(string) leaves the zero value for any other type
Recode(val, type) ==
  IF type = "TypeInt" THEN GoInt64(IF val.t = "int64" THEN val.v ELSE 0)
  ELSE IF type = "TypeFloat" THEN GoFloat(IF val.t = "float64" THEN val.v ELSE 0)
  ELSE GoString(IF val.t = "string" THEN val.v ELSE "")

\* compressColumn, as the rows decompressColumn reads back
compressColumn(col) == [i \in 1..Len(col.data) |-> Recode(col.data[i], col.type)]

\* the order of the strings in use
StrRank(x) == CHOOSE i \in 0..4 : <<"", "r1", "r2", "r3", "r4">>[i + 1] = x
StrLess(a, b) == StrRank(a) < StrRank(b)

\* compareValues(a, b): -1, 0 or 1; b is asserted to a's type (zero value if
\* it is of another type), and only int, float64 and string are compared
compareValues(a, b) ==
  IF a.t \in {"int", "float64"}
  THEN LET bv == IF b.t = a.t THEN b.v ELSE 0
       IN IF a.v < bv THEN -1 ELSE IF a.v > bv THEN 1 ELSE 0
  ELSE IF a.t = "string"
  THEN LET bv == IF b.t = "string" THEN b.v ELSE ""
       IN IF StrLess(a.v, bv) THEN -1 ELSE IF StrLess(bv, a.v) THEN 1 ELSE 0
  ELSE 0

RECURSIVE StatsLoop(_, _)
\* updateColumnStats, the loop over col.Data from position i
StatsLoop(col, i) ==
  IF i > Len(col.data) THEN col
  ELSE LET val == col.data[i]
           c1 == IF compareValues(val, col.min) < 0 THEN [col EXCEPT !.min = val] ELSE col
           c2 == IF compareValues(val, c1.max) > 0 THEN [c1 EXCEPT !.max = val] ELSE c1
       IN StatsLoop(c2, i + 1)

\* updateColumnStats
updateColumnStats(col) ==
  IF Len(col.data) = 0 THEN col
  ELSE StatsLoop([col EXCEPT !.min = col.data[1], !.max = col.data[1]], 1)

\* compressBlock, the body of the loop over c.columns
SealColumn(col, compression) ==
  IF ~col.some THEN col
  ELSE IF compression /\ Len(col.data) > 0
  THEN updateColumnStats([col EXCEPT !.compressed = compressColumn(col), !.packed = TRUE,
                                     !.data = << >>])
  ELSE updateColumnStats(col)

\* sumValues: the sum of the int, int64, int32, float64 and float32 values
RECURSIVE sumValues(_)
sumValues(data) ==
  IF data = << >> THEN 0
  ELSE (IF Head(data).t \in {"int", "int64", "int32", "float64", "float32"} THEN Head(data).v ELSE 0)
       + sumValues(Tail(data))

\* Aggregate, the rows it works on: col.Data, or the decompressed rows when
\* the column has a compressed payload
AggData(col) == IF col.packed THEN col.compressed ELSE col.data

\* Aggregate(AggQuery{Column, Operation}): the Value of the Result
Aggregate(columns, name, op) ==
  IF ~columns[name].some THEN [err |-> "column not found", value |-> Nil]
  ELSE IF op = "COUNT" THEN [err |-> "ok", value |-> GoInt64(Len(AggData(columns[name])))]
  ELSE IF op = "SUM" THEN [err |-> "ok", value |-> GoInt64(sumValues(AggData(columns[name])))]
  ELSE IF op = "MIN" THEN [err |-> "ok", value |-> columns[name].min]
  ELSE IF op = "MAX" THEN [err |-> "ok", value |-> columns[name].max]
  ELSE [err |-> "unsupported operation", value |-> Nil]

VARIABLES
  cBlockSize,    \* ColumnarStore.blockSize
  cCompression,  \* ColumnarStore.compression
  cColumns,      \* ColumnarStore.columns
  cBlocks,       \* len(ColumnarStore.blocks)
  cInserted,     \* per column, the values inserted so far (for the properties)
  cCalls         \* InsertBatch calls so far

colVars == <<cBlockSize, cCompression, cColumns, cBlocks, cInserted, cCalls>>

\* NewColumnarStore(blockSize, compression)
InitCol ==
  /\ cBlockSize \in BlockSizes
  /\ cCompression \in BOOLEAN
  /\ cColumns = [name \in ColNames |-> NoColumn]
  /\ cBlocks = 0
  /\ cInserted = [name \in DataCols |-> << >>]
  /\ cCalls = 0

RECURSIVE ValuesOf(_, _)
\* the values the records carry for a data column, in order
ValuesOf(records, name) ==
  IF records = << >> THEN << >>
  ELSE (IF Head(records)[name] = Nil THEN << >> ELSE <<Head(records)[name]>>)
       \o ValuesOf(Tail(records), name)

\* ColumnarStore.InsertBatch(records), with compressBlock when the id column
\* has reached the block size
InsertBatch(records) ==
  LET appended == InsertRecords(cColumns, records, 1)
      seal == appended["id"].some /\ Len(appended["id"].data) >= cBlockSize
  IN /\ cColumns' = IF seal THEN [name \in ColNames |-> SealColumn(appended[name], cCompression)]
                    ELSE appended
     /\ cBlocks' = IF seal THEN cBlocks + 1 ELSE cBlocks
     /\ cInserted' = [name \in DataCols |-> cInserted[name] \o ValuesOf(records, name)]
     /\ cCalls' = cCalls + 1
     /\ UNCHANGED <<cBlockSize, cCompression>>

----------------------------------------------------------------------------
(* KviEngine under concurrent callers: the locks each operation takes *)

\* operations called per run
MaxLockCalls == 3
\* the clock readings of a run
MaxClock == 2

Threads == {"t1", "t2"}
\* memMu, indexMu, mvccMu of KviEngine and bufMu of the WAL
LockNames == {"memMu", "indexMu", "mvccMu", "bufMu"}
\* the key the callers work on
LKey == "a"

\* one instruction of an operation: a lock call (Lock, Unlock, RLock,
\* RUnlock) on mu or the clock reading Now; eff is what the operation does to
\* the structure before it releases the lock; the instruction is skipped
\* unless its condition holds ("wal": e.wal != nil, "indexed": the B-tree
\* holds an item for the callback of Scan to visit)
Ins(do, mu, eff, when) == [do |-> do, mu |-> mu, eff |-> eff, when |-> when]

\* wal.Append: the buffer is appended to under bufMu
AppendCode ==
  << Ins("Lock", "bufMu", "none", "wal"), Ins("Unlock", "bufMu", "walAppend", "wal") >>

GetCode ==
  << Ins("RLock", "memMu", "none", "always"), Ins("RUnlock", "memMu", "none", "always") >>

PutCode ==
  << Ins("Now", "", "stamp", "always") >> \o AppendCode \o
  << Ins("Lock", "mvccMu", "none", "always"), Ins("Unlock", "mvccMu", "AddVersion", "always"),
     Ins("Lock", "memMu", "none", "always"), Ins("Unlock", "memMu", "memPut", "always"),
     Ins("Lock", "indexMu", "none", "always"), Ins("Unlock", "indexMu", "indexPut", "always") >>

DeleteCode ==
  AppendCode \o
  << Ins("Lock", "mvccMu", "none", "always"), Ins("Unlock", "mvccMu", "MarkDeleted", "always"),
     Ins("Lock", "memMu", "none", "always"), Ins("Unlock", "memMu", "memDelete", "always"),
     Ins("Lock", "indexMu", "none", "always"), Ins("Unlock", "indexMu", "indexDelete", "always") >>

ScanCode ==
  << Ins("RLock", "indexMu", "none", "always"),
     Ins("RLock", "memMu", "none", "indexed"), Ins("RUnlock", "memMu", "none", "indexed"),
     Ins("RUnlock", "indexMu", "none", "always") >>

BatchPutCode ==
  AppendCode \o
  << Ins("Lock", "memMu", "none", "always"),
     Ins("Lock", "indexMu", "none", "always"), Ins("Unlock", "indexMu", "indexPut", "always"),
     Ins("Unlock", "memMu", "memPut", "always") >>

SnapshotCode ==
  << Ins("RLock", "memMu", "none", "always"), Ins("RUnlock", "memMu", "none", "always") >>

RestoreCode ==
  << Ins("Lock", "memMu", "none", "always"), Ins("Unlock", "memMu", "memRestore", "always"),
     Ins("Lock", "indexMu", "none", "always"), Ins("Unlock", "indexMu", "indexRebuild", "always") >>

Ops == {"Get", "Put", "Delete", "Scan", "BatchPut", "Snapshot", "Restore"}

CodeOf(op) ==
  CASE op = "Get" -> GetCode
    [] op = "Put" -> PutCode
    [] op = "Delete" -> DeleteCode
    [] op = "Scan" -> ScanCode
    [] op = "BatchPut" -> BatchPutCode
    [] op = "Snapshot" -> SnapshotCode
    [] op = "Restore" -> RestoreCode

VARIABLES
  lWal,     \* e.wal != nil
  lNow,     \* the clock
  lLocks,   \* per lock: the writer (w, with got once it has the lock) and the readers
  lPc,      \* per thread: the operation it is in, its next instruction, its locals
  lChain,   \* the MVCC chain of the key
  lMem,     \* the keys of memTable
  lIndex,   \* the keys of the B-tree
  lBuf,     \* len(WAL.buffer)
  lCalls    \* operations called so far

lockVars == <<lWal, lNow, lLocks, lPc, lChain, lMem, lIndex, lBuf, lCalls>>

FreeLock == [w |-> "", got |-> FALSE, r |-> {}]
IdlePc == [op |-> "idle", i |-> 0, ver |-> 0, snap |-> {}]

InitLocks ==
  /\ lWal \in BOOLEAN
  /\ lNow = 1
  /\ lLocks = [mu \in LockNames |-> FreeLock]
  /\ lPc = [t \in Threads |-> IdlePc]
  /\ lChain = << >>
  /\ lMem = {}
  /\ lIndex = {}
  /\ lBuf = 0
  /\ lCalls = 0

\* the locks thread t holds
Held(t) == {mu \in LockNames : (lLocks[mu].w = t /\ lLocks[mu].got) \/ t \in lLocks[mu].r}

\* sync.RWMutex: Lock first shuts out new readers and other writers, then
\* waits for the readers that hold the lock to leave; RLock waits while a
\* writer holds or awaits the lock
LockStep(mu, t) ==
  IF lLocks[mu].w = "" THEN [lLocks EXCEPT ![mu].w = t, ![mu].got = (lLocks[mu].r = {})]
  ELSE [lLocks EXCEPT ![mu].got = TRUE]
CanLock(mu, t) ==
  \/ lLocks[mu].w = ""
  \/ lLocks[mu].w = t /\ ~lLocks[mu].got /\ lLocks[mu].r = {}
CanRLock(mu, t) == lLocks[mu].w = ""

\* the instruction applies in the current state
Applies(ins) ==
  CASE ins.when = "always" -> TRUE
    [] ins.when = "wal" -> lWal
    [] ins.when = "indexed" -> lIndex # {}

\* a caller invokes an operation (given: the keys of the snapshot passed to Restore)
Call(t, op, given) ==
  /\ lPc[t].op = "idle"
  /\ lCalls < MaxLockCalls
  /\ op = "Restore" \/ given = {}
  /\ lPc' = [lPc EXCEPT ![t] = [op |-> op, i |-> 1, ver |-> 0, snap |-> given]]
  /\ lCalls' = lCalls + 1
  /\ UNCHANGED <<lWal, lNow, lLocks, lChain, lMem, lIndex, lBuf>>

\* the position after instruction i: the next instruction, or the return
After(p) == IF p.i = Len(CodeOf(p.op)) THEN IdlePc ELSE [p EXCEPT !.i = p.i + 1]

\* thread t executes its next instruction
Step(t) ==
  LET p == lPc[t]
      ins == CodeOf(p.op)[p.i]
  IN /\ p.op # "idle"
     /\ UNCHANGED <<lWal, lNow, lCalls>>
     /\ IF ~Applies(ins)
        THEN /\ lPc' = [lPc EXCEPT ![t] = After(p)]
             /\ UNCHANGED <<lLocks, lChain, lMem, lIndex, lBuf>>
        ELSE /\ CASE ins.do = "Lock" ->
                       /\ CanLock(ins.mu, t)
                       /\ lLocks' = LockStep(ins.mu, t)
                       /\ lPc' = [lPc EXCEPT ![t] = IF lLocks'[ins.mu].got THEN After(p) ELSE p]
                  [] ins.do = "Unlock" ->
                       /\ lLocks' = [lLocks EXCEPT ![ins.mu] = FreeLock]
                       /\ lPc' = [lPc EXCEPT ![t] = After(p)]
                  [] ins.do = "RLock" ->
                       /\ CanRLock(ins.mu, t)
                       /\ lLocks' = [lLocks EXCEPT ![ins.mu].r = @ \cup {t}]
                       /\ lPc' = [lPc EXCEPT ![t] = After(p)]
                  [] ins.do = "RUnlock" ->
                       /\ lLocks' = [lLocks EXCEPT ![ins.mu].r = @ \ {t}]
                       /\ lPc' = [lPc EXCEPT ![t] = After(p)]
                  [] ins.do = "Now" ->
                       /\ lLocks' = lLocks
                       /\ lPc' = [lPc EXCEPT ![t] = [After(p) EXCEPT !.ver = lNow]]
             /\ lChain' = CASE ins.eff = "AddVersion" -> AddVersion(lChain, p.ver, p.ver, lNow)
                            [] ins.eff = "MarkDeleted" -> MarkDeleted(lChain, lNow, lNow)
                            [] OTHER -> lChain
             /\ lMem' = CASE ins.eff = "memPut" -> lMem \cup {LKey}
                          [] ins.eff = "memDelete" -> lMem \ {LKey}
                          [] ins.eff = "memRestore" -> p.snap
                          [] OTHER -> lMem
             /\ lIndex' = CASE ins.eff = "indexPut" -> lIndex \cup {LKey}
                            [] ins.eff = "indexDelete" -> lIndex \ {LKey}
                            [] ins.eff = "indexRebuild" -> p.snap
                            [] OTHER -> lIndex
             /\ lBuf' = IF ins.eff = "walAppend" THEN lBuf + 1 ELSE lBuf

\* the clock advances
LTick ==
  /\ lNow < MaxClock
  /\ lNow' = lNow + 1
  /\ UNCHANGED <<lWal, lLocks, lPc, lChain, lMem, lIndex, lBuf, lCalls>>

----------------------------------------------------------------------------
(* The WAL under concurrent callers: Append, Flush and ReadAll step by step *)

\* calls of Append, Flush and ReadAll per run
MaxWalCalls == 4
\* the clock readings of a run
MaxWalClock == 2

WalOps == {"Append", "Flush", "ReadAll"}

VARIABLES
  qNow,     \* the clock
  qBuffer,  \* WAL.buffer: the LSNs of the buffered entries
  qFile,    \* the log file: the LSNs of its frames
  qMu,      \* the goroutine that holds WAL.mu ("": free)
  qPc,      \* per goroutine: the call it is in, where it stands, its locals
  qRead,    \* what the last ReadAll returned
  qCalls    \* calls so far

cwalVars == <<qNow, qBuffer, qFile, qMu, qPc, qRead, qCalls>>

QIdle == [op |-> "idle", pc |-> "idle", lsn |-> 0, entries |-> << >>]

InitCwal ==
  /\ qNow = 1
  /\ qBuffer = << >>
  /\ qFile = << >>
  /\ qMu = ""
  /\ qPc = [t \in Threads |-> QIdle]
  /\ qRead = NoRead
  /\ qCalls = 0

\* a goroutine calls Flush or ReadAll, or calls Append, which stamps the entry
\* with the clock (wal.go 74-75) before it takes any lock
QCall(t, op) ==
  /\ qPc[t].op = "idle"
  /\ qCalls < MaxWalCalls
  /\ qPc' = [qPc EXCEPT ![t] =
               [QIdle EXCEPT !.op = op,
                             !.pc = CASE op = "Append" -> "buffer"
                                      [] op = "Flush" -> "take"
                                      [] op = "ReadAll" -> "lock",
                             !.lsn = IF op = "Append" THEN qNow ELSE 0]]
  /\ qCalls' = qCalls + 1
  /\ UNCHANGED <<qNow, qBuffer, qFile, qMu, qRead>>

\* Append, wal.go 84-93: the entry joins the buffer under bufMu; a full buffer
\* is flushed
QBuffer(t) ==
  /\ qPc[t].pc = "buffer"
  /\ qBuffer' = Append(qBuffer, qPc[t].lsn)
  /\ qPc' = [qPc EXCEPT ![t] = IF Len(qBuffer') >= FlushThreshold
                               THEN [qPc[t] EXCEPT !.pc = "take"] ELSE QIdle]
  /\ UNCHANGED <<qNow, qFile, qMu, qRead, qCalls>>

\* where a goroutine stands when its Flush returns: ReadAll goes on to read
AfterFlush(p) == IF p.op = "ReadAll" THEN [p EXCEPT !.pc = "scan", !.entries = << >>] ELSE QIdle

\* Flush, wal.go 100-107: the buffer is taken and replaced under bufMu
QTake(t) ==
  /\ qPc[t].pc = "take"
  /\ qBuffer' = << >>
  /\ qPc' = [qPc EXCEPT ![t] = IF qBuffer = << >> THEN AfterFlush(qPc[t])
                               ELSE [qPc[t] EXCEPT !.pc = "write", !.entries = qBuffer]]
  /\ UNCHANGED <<qNow, qFile, qMu, qRead, qCalls>>

\* Flush, wal.go 109-136: w.mu.Lock(), which waits while any goroutine (the
\* caller included: sync.Mutex is not reentrant) holds it; the entries taken
\* are written and the lock is released
QWrite(t) ==
  /\ qPc[t].pc = "write"
  /\ qMu = ""
  /\ qFile' = qFile \o qPc[t].entries
  /\ qPc' = [qPc EXCEPT ![t] = AfterFlush(qPc[t])]
  /\ UNCHANGED <<qNow, qBuffer, qMu, qRead, qCalls>>

\* ReadAll, wal.go 141-145: w.mu.Lock(), then Flush is called with the lock held
QLock(t) ==
  /\ qPc[t].pc = "lock"
  /\ qMu = ""
  /\ qMu' = t
  /\ qPc' = [qPc EXCEPT ![t].pc = "take"]
  /\ UNCHANGED <<qNow, qBuffer, qFile, qRead, qCalls>>

\* ReadAll, wal.go 149-197: the file is read and the deferred Unlock runs
QScan(t) ==
  /\ qPc[t].pc = "scan"
  /\ qRead' = [valid |-> TRUE, entries |-> qFile]
  /\ qMu' = ""
  /\ qPc' = [qPc EXCEPT ![t] = QIdle]
  /\ UNCHANGED <<qNow, qBuffer, qFile, qCalls>>

\* goroutine t takes its next step
QStep(t) == QBuffer(t) \/ QTake(t) \/ QWrite(t) \/ QLock(t) \/ QScan(t)

\* the clock advances
QTick ==
  /\ qNow < MaxWalClock
  /\ qNow' = qNow + 1
  /\ UNCHANGED <<qBuffer, qFile, qMu, qPc, qRead, qCalls>>

----------------------------------------------------------------------------
(* Specifications *)

\* the index left idle while another part is exercised
HnswIdle == InitHnsw /\ vM = 1

\* the columnar store left idle while another part is exercised
ColIdle == InitCol /\ cBlockSize = 1 /\ ~cCompression

\* no concurrent callers while another part is exercised
LocksIdle == InitLocks /\ ~lWal

\* no concurrent callers of the log while another part is exercised
CwalIdle == InitCwal

vars == <<engineVars, walVars, hybVars, mvccVars, hnswVars, colVars, lockVars, cwalVars>>

Init == InitEngine /\ InitWal /\ InitHybrid /\ InitMvcc /\ HnswIdle /\ ColIdle /\ LocksIdle /\ CwalIdle

Next ==
  \/ \E k \in Keys : \E tpl \in Templates(k) :
       ops < MaxOps /\ PutNew(k, tpl) /\ UNCHANGED <<walVars, hybVars, mvccVars, hnswVars, colVars, lockVars, cwalVars>>
  \/ \E k \in Keys : ops < MaxOps /\ PutStored(k) /\ UNCHANGED <<walVars, hybVars, mvccVars, hnswVars, colVars, lockVars, cwalVars>>
  \/ \E k \in Keys : ops < MaxOps /\ Delete(k) /\ UNCHANGED <<walVars, hybVars, mvccVars, hnswVars, colVars, lockVars, cwalVars>>
  \/ \E S \in BatchInputs :
       /\ ops < MaxOps
       /\ BatchPut(S, [k \in S |-> NewRecord(NoKey, DataOne, 0, 0)])
       /\ UNCHANGED <<walVars, hybVars, mvccVars, hnswVars, colVars, lockVars, cwalVars>>
  \/ ~snap.taken /\ Snapshot /\ UNCHANGED <<walVars, hybVars, mvccVars, hnswVars, colVars, lockVars, cwalVars>>
  \/ \E s \in SnapInputs : ops < MaxOps /\ Restore(s) /\ UNCHANGED <<walVars, hybVars, mvccVars, hnswVars, colVars, lockVars, cwalVars>>
  \/ ops < MaxOps /\ Close /\ UNCHANGED <<walVars, hybVars, mvccVars, hnswVars, colVars, lockVars, cwalVars>>
  \/ ops < MaxOps /\ Crash /\ UNCHANGED <<walVars, hybVars, mvccVars, hnswVars, colVars, lockVars, cwalVars>>
  \/ Open /\ UNCHANGED <<walVars, hybVars, mvccVars, hnswVars, colVars, lockVars, cwalVars>>
  \/ now < MaxNow /\ ops < MaxOps /\ Tick /\ UNCHANGED <<walVars, hybVars, mvccVars, hnswVars, colVars, lockVars, cwalVars>>
  \/ CleanScan /\ UNCHANGED <<walVars, hybVars, mvccVars, hnswVars, colVars, lockVars, cwalVars>>
  \/ \E k \in Keys : CleanDelete(k) /\ UNCHANGED <<walVars, hybVars, mvccVars, hnswVars, colVars, lockVars, cwalVars>>
  \/ StatsCollect /\ UNCHANGED <<walVars, hybVars, mvccVars, hnswVars, colVars, lockVars, cwalVars>>

Spec == Init /\ [][Next]_vars

\* the engine left idle while the log is exercised on its own
EngineIdle == InitEngine /\ mode = "disk" /\ walOn

InitWAL == EngineIdle /\ InitWal /\ InitHybrid /\ InitMvcc /\ HnswIdle /\ ColIdle /\ LocksIdle /\ CwalIdle

NextWAL ==
  \/ \E e \in WalInputs : Len(wLog) < MaxAppends /\ WalAppend(e) /\ UNCHANGED <<engineVars, hybVars, mvccVars, hnswVars, colVars, lockVars, cwalVars>>
  \/ WalFlush /\ UNCHANGED <<engineVars, hybVars, mvccVars, hnswVars, colVars, lockVars, cwalVars>>
  \/ WalReadAll /\ UNCHANGED <<engineVars, hybVars, mvccVars, hnswVars, colVars, lockVars, cwalVars>>
  \/ WalClose /\ UNCHANGED <<engineVars, hybVars, mvccVars, hnswVars, colVars, lockVars, cwalVars>>
  \/ \E n \in 0..Len(FramesOf(wBuf, WalPool)) :
       wCrashes < MaxCrashes /\ WalCrash(n) /\ UNCHANGED <<engineVars, hybVars, mvccVars, hnswVars, colVars, lockVars, cwalVars>>
  \/ WalOpen /\ UNCHANGED <<engineVars, hybVars, mvccVars, hnswVars, colVars, lockVars, cwalVars>>
  \/ \E j \in 1..MaxAppends : \E kind \in {"garbled", "flipped"} :
       wDamage < MaxDamage /\ WalDamage(j, kind) /\ UNCHANGED <<engineVars, hybVars, mvccVars, hnswVars, colVars, lockVars, cwalVars>>

SpecWAL == InitWAL /\ [][NextWAL]_vars

InitHybridOnly == EngineIdle /\ InitWal /\ InitHybrid /\ InitMvcc /\ HnswIdle /\ ColIdle /\ LocksIdle /\ CwalIdle

NextHybrid ==
  \/ \E c \in Callers : \E k \in HKeys : \E rec \in HybridInputs(k) :
       hCalls < MaxCalls /\ HPutStart(c, k, rec) /\ UNCHANGED <<engineVars, walVars, mvccVars, hnswVars, colVars, lockVars, cwalVars>>
  \/ \E c \in Callers : HPutEnqueue(c) /\ UNCHANGED <<engineVars, walVars, mvccVars, hnswVars, colVars, lockVars, cwalVars>>
  \/ \E c \in Callers : \E k \in HKeys :
       hCalls < MaxCalls /\ HGetStart(c, k) /\ UNCHANGED <<engineVars, walVars, mvccVars, hnswVars, colVars, lockVars, cwalVars>>
  \/ \E c \in Callers : HGetDisk(c) /\ UNCHANGED <<engineVars, walVars, mvccVars, hnswVars, colVars, lockVars, cwalVars>>
  \/ \E c \in Callers : HGetFill(c) /\ UNCHANGED <<engineVars, walVars, mvccVars, hnswVars, colVars, lockVars, cwalVars>>
  \/ \E c \in Callers : \E k \in HKeys :
       hCalls < MaxCalls /\ HDeleteStart(c, k) /\ UNCHANGED <<engineVars, walVars, mvccVars, hnswVars, colVars, lockVars, cwalVars>>
  \/ \E c \in Callers : HDeleteCol(c) /\ UNCHANGED <<engineVars, walVars, mvccVars, hnswVars, colVars, lockVars, cwalVars>>
  \/ \E c \in Callers : HDeleteDisk(c) /\ UNCHANGED <<engineVars, walVars, mvccVars, hnswVars, colVars, lockVars, cwalVars>>
  \/ HWorker /\ UNCHANGED <<engineVars, walVars, mvccVars, hnswVars, colVars, lockVars, cwalVars>>
  \/ HWorkerExit /\ UNCHANGED <<engineVars, walVars, mvccVars, hnswVars, colVars, lockVars, cwalVars>>
  \/ \E c \in Callers : hCalls < MaxCalls /\ HCloseStart(c) /\ UNCHANGED <<engineVars, walVars, mvccVars, hnswVars, colVars, lockVars, cwalVars>>
  \/ \E c \in Callers : HCloseFinish(c) /\ UNCHANGED <<engineVars, walVars, mvccVars, hnswVars, colVars, lockVars, cwalVars>>
  \/ HOpen /\ UNCHANGED <<engineVars, walVars, mvccVars, hnswVars, colVars, lockVars, cwalVars>>

SpecHybrid == InitHybridOnly /\ [][NextHybrid]_vars

\* the worker goroutine is scheduled whenever it can run, and a caller of
\* Close goes on once wg.Wait() returns
FairHybrid ==
  /\ WF_vars(HWorker /\ UNCHANGED <<engineVars, walVars, mvccVars, hnswVars, colVars, lockVars, cwalVars>>)
  /\ WF_vars(HWorkerExit /\ UNCHANGED <<engineVars, walVars, mvccVars, hnswVars, colVars, lockVars, cwalVars>>)
  /\ \A c \in Callers : WF_vars(HCloseFinish(c) /\ UNCHANGED <<engineVars, walVars, mvccVars, hnswVars, colVars, lockVars, cwalVars>>)

SpecHybridFair == SpecHybrid /\ FairHybrid

InitMVCC == EngineIdle /\ InitWal /\ InitHybrid /\ InitMvcc /\ HnswIdle /\ ColIdle /\ LocksIdle /\ CwalIdle

NextMVCC ==
  \/ Len(tPuts) < MaxPuts /\ TPutNew /\ UNCHANGED <<engineVars, walVars, hybVars, hnswVars, colVars, lockVars, cwalVars>>
  \/ Len(tPuts) < MaxPuts /\ TPutAgain /\ UNCHANGED <<engineVars, walVars, hybVars, hnswVars, colVars, lockVars, cwalVars>>
  \/ \E i \in 1..Len(tPuts) : TGetAsOf(i) /\ UNCHANGED <<engineVars, walVars, hybVars, hnswVars, colVars, lockVars, cwalVars>>
  \/ TGetLatest /\ UNCHANGED <<engineVars, walVars, hybVars, hnswVars, colVars, lockVars, cwalVars>>

SpecMVCC == InitMVCC /\ [][NextMVCC]_vars

InitHNSW == EngineIdle /\ InitWal /\ InitHybrid /\ InitMvcc /\ InitHnsw /\ ColIdle /\ LocksIdle /\ CwalIdle

NextHNSW ==
  \/ \E id \in VIds : \E level \in RandomLevels(vM) :
       /\ vCalls < MaxVecCalls /\ VAdd(id, level)
       /\ UNCHANGED <<engineVars, walVars, hybVars, mvccVars, colVars, lockVars, cwalVars>>
  \/ \E id \in VIds : \E next \in VIds \cup {""} :
       /\ vCalls < MaxVecCalls /\ VDelete(id, next)
       /\ UNCHANGED <<engineVars, walVars, hybVars, mvccVars, colVars, lockVars, cwalVars>>

SpecHNSW == InitHNSW /\ [][NextHNSW]_vars

InitColumnar == EngineIdle /\ InitWal /\ InitHybrid /\ InitMvcc /\ HnswIdle /\ InitCol /\ LocksIdle /\ CwalIdle

NextColumnar ==
  \E records \in RowBatches :
    /\ cCalls < MaxBatches /\ InsertBatch(records)
    /\ UNCHANGED <<engineVars, walVars, hybVars, mvccVars, hnswVars, lockVars, cwalVars>>

SpecColumnar == InitColumnar /\ [][NextColumnar]_vars

InitConcurrent == EngineIdle /\ InitWal /\ InitHybrid /\ InitMvcc /\ HnswIdle /\ ColIdle /\ InitLocks /\ CwalIdle

NextConcurrent ==
  \/ \E t \in Threads : \E op \in Ops : \E given \in SUBSET {LKey} :
       Call(t, op, given) /\ UNCHANGED <<engineVars, walVars, hybVars, mvccVars, hnswVars, colVars, cwalVars>>
  \/ \E t \in Threads :
       Step(t) /\ UNCHANGED <<engineVars, walVars, hybVars, mvccVars, hnswVars, colVars, cwalVars>>
  \/ LTick /\ UNCHANGED <<engineVars, walVars, hybVars, mvccVars, hnswVars, colVars, cwalVars>>

SpecConcurrent == InitConcurrent /\ [][NextConcurrent]_vars

\* the scheduler runs every goroutine that can take a step
FairConcurrent ==
  \A t \in Threads :
    WF_vars(Step(t) /\ UNCHANGED <<engineVars, walVars, hybVars, mvccVars, hnswVars, colVars, cwalVars>>)

SpecConcurrentFair == SpecConcurrent /\ FairConcurrent

InitCwalOnly == EngineIdle /\ InitWal /\ InitHybrid /\ InitMvcc /\ HnswIdle /\ ColIdle /\ LocksIdle /\ InitCwal

NextCwal ==
  \/ \E t \in Threads : \E op \in WalOps : QCall(t, op) /\ UNCHANGED <<engineVars, walVars, hybVars, mvccVars, hnswVars, colVars, lockVars>>
  \/ \E t \in Threads : QBuffer(t) /\ UNCHANGED <<engineVars, walVars, hybVars, mvccVars, hnswVars, colVars, lockVars>>
  \/ \E t \in Threads : QTake(t) /\ UNCHANGED <<engineVars, walVars, hybVars, mvccVars, hnswVars, colVars, lockVars>>
  \/ \E t \in Threads : QWrite(t) /\ UNCHANGED <<engineVars, walVars, hybVars, mvccVars, hnswVars, colVars, lockVars>>
  \/ \E t \in Threads : QLock(t) /\ UNCHANGED <<engineVars, walVars, hybVars, mvccVars, hnswVars, colVars, lockVars>>
  \/ \E t \in Threads : QScan(t) /\ UNCHANGED <<engineVars, walVars, hybVars, mvccVars, hnswVars, colVars, lockVars>>
  \/ QTick /\ UNCHANGED <<engineVars, walVars, hybVars, mvccVars, hnswVars, colVars, lockVars>>

SpecCwal == InitCwalOnly /\ [][NextCwal]_vars

\* the scheduler runs every goroutine that can take a step
FairCwal ==
  \A t \in Threads : WF_vars(QStep(t) /\ UNCHANGED <<engineVars, walVars, hybVars, mvccVars, hnswVars, colVars, lockVars>>)

SpecCwalFair == SpecCwal /\ FairCwal

----------------------------------------------------------------------------
(* Properties of KviEngine *)

\* the arguments scan is called with
ScanStarts == Keys \cup {NoKey}
ScanEnds == Keys \cup {NoKey, "c"}
ScanLimits == 0..Cardinality(Keys)

InSeq(x, q) == \E i \in 1..Len(q) : q[i] = x

\* C1: in every mode, once put(K, V) has returned ok and nothing else has
\* touched K, and V's expiration (if any) is not in the past, every get(K)
\* succeeds and returns a record with V's id and data.
C1_PutThenGet ==
  \A k \in Keys :
    (up = "open" /\ ack[k].ok /\ ~(ack[k].ttl # 0 /\ now > ack[k].ttl))
      => \A r \in GetOutcomes(k) :
           /\ r.err = "ok"
           /\ heap[r.rec].id = ack[k].id
           /\ heap[r.rec].data = ack[k].data

\* C2: after put(K, V) and then delete(K), as long as K is not written again,
\* get(K) fails with not-found and no scan, over any range, returns K.
C2_DeletedStaysGone ==
  \A k \in Keys :
    (up = "open" /\ gone[k])
      => /\ GetOutcomes(k) = {NotFound}
         /\ \A start \in ScanStarts : \A end \in ScanEnds : \A limit \in ScanLimits :
              ~InSeq(k, Scan(start, end, limit))

\* C2 witness: a key that was put and then deleted, the delete being the last call
C2_Witness ==
  \E k \in Keys :
    /\ up = "open" /\ gone[k] /\ last.op = "delete" /\ last.key = k
    /\ Len(mvcc[k]) >= 2
    /\ ~mvcc[k][1].Deleted

\* C3: in disk mode with the WAL enabled every acknowledged put or delete is
\* durable: after a crash and a reopen on the same WAL file the memory table
\* holds, for every key, what the last acknowledged put or delete left there.
C3_AckedIsDurable ==
  (mode = "disk" /\ walOn /\ up = "open")
    => \A k \in Keys :
         /\ durable[k].st = "put"
              => /\ memTable[k] # 0
                 /\ heap[memTable[k]].id = durable[k].id
                 /\ heap[memTable[k]].version = durable[k].version
         /\ durable[k].st = "delete" => memTable[k] = 0

\* C33: in disk mode with the WAL enabled, after a clean close and a reopen
\* the memory table holds every key of an acknowledged batch put that nothing
\* has written or deleted since, and get succeeds for it
C33_BatchReplayed ==
  (mode = "disk" /\ walOn /\ up = "open")
    => \A k \in Keys :
         durable[k].st = "batch_closed"
           => /\ memTable[k] # 0
              /\ \A r \in GetOutcomes(k) : r.err = "ok"

\* C34: whenever the engine is open and no call is in flight, the keys of the
\* ordered index are the keys of the memory table, and a full-range scan
\* returns every key for which get succeeds
C34_IndexAgrees ==
  up = "open"
    => /\ IndexKeys(index) = TableKeys(memTable)
       /\ \A k \in Keys :
            (\E r \in GetOutcomes(k) : r.err = "ok") => InSeq(k, Scan(NoKey, NoKey, 0))

\* C35: in vector mode a key that was deleted and not put again is not among
\* the ids of the vector index (the ids a vector search draws its results
\* from), and the next put of the key with a vector of the index's dimension
\* succeeds
C35_DeleteUnindexes ==
  /\ [](\A k \in Keys : (mode = "vector" /\ up = "open" /\ gone[k]) => k \notin vecIds)
  /\ [][\A k \in Keys :
          (/\ mode = "vector" /\ gone[k]
           /\ last'.op = "put" /\ last'.key = k /\ ops' = ops + 1
           /\ heap'[memTable'[k]].vec = VectorDim)
            => last'.err = "ok"]_vars

C37_CleanerOnlyExpired ==
  [][\A k \in Keys :
       (last'.op = "clean" /\ last'.key = k /\ memTable[k] # 0 /\ memTable'[k] = 0)
         => Expired(heap[memTable[k]], now)]_vars

\* C10: when restore(S) succeeds after any puts, deletes and batch puts that
\* followed S = snapshot(), the memory table holds exactly the keys S was taken
\* with, each with the id, data and version it had then, and get succeeds for
\* each of them.
C10_SnapshotRoundTrip ==
  (up = "open" /\ last.op = "restore" /\ last.err = "ok" /\ last.clean)
    => /\ TableView(memTable, heap) = snapView.recs
       /\ \A k \in TableKeys(memTable) : \A r \in GetOutcomes(k) : r.err = "ok"

\* C21: while a snapshot is held, whatever put, delete, batch put or change of a
\* stored record happened after Snapshot returned, the snapshot has the key set
\* it was taken with and every record in it has the id, data and version it had
\* when the snapshot was taken
C21_SnapshotImmutable ==
  snap.taken => TableView(snap.Records, heap) = snapView.recs

\* C22: for a record written by put and not modified since, recomputing the
\* checksum gives the stored checksum in whatever order the data fields are
\* visited, so get never reports data corruption for it
C22_ChecksumStable ==
  \A k \in Keys :
    (up = "open" /\ ack[k].ok /\ memTable[k] # 0)
      => /\ Checksums(heap[memTable[k]]) = {heap[memTable[k]].checksum}
         /\ Corruption \notin GetOutcomes(k)

\* C23: in vector mode a put with a vector of another length than the
\* configured dimension stores nothing, so every record get returns that
\* carries a vector has a vector of exactly the configured dimension
C23_VectorDimension ==
  (mode = "vector" /\ up = "open")
    => \A k \in Keys : \A r \in GetOutcomes(k) :
         (r.err = "ok" /\ heap[r.rec].vec > 0) => heap[r.rec].vec = VectorDim

\* C24: with or without a WAL, every record a batch put stores (the keys whose
\* table entry the step replaces) has its id, version, created and updated
\* instants and checksum assigned as put assigns them, and get of each of
\* these keys succeeds
C24_BatchStamped ==
  [][(last'.op = "batch" /\ ops' = ops + 1)
       => \A k \in Keys :
            memTable'[k] # memTable[k]
              => LET r == heap'[memTable'[k]]
                 IN /\ r.id # NoKey
                    /\ r.version = now
                    /\ r.created = Instant(now, TRUE)
                    /\ r.updated = Instant(now, TRUE)
                    /\ r.checksum \in Checksums(r)
                    /\ \A g \in GetOutcomes(k)' : g.err = "ok"]_vars

\* C25: a delete(K) called by a client returns ok only when K was in the
\* memory table when it was called, and returns not-found when K was not
C25_DeleteReportsAbsence ==
  [][(last'.op = "delete" /\ ops' = ops + 1)
       => /\ last'.err = "ok" => memTable[last'.key] # 0
          /\ memTable[last'.key] = 0 => last'.err = "not_found"]_vars

\* C26: an operation called with a context that is already cancelled returns
\* a cancelled error instead of completing normally (stated for get, whose
\* results the model enumerates: every result of get under a cancelled context
\* is the cancelled error)
C26_Cancellation ==
  up = "open" => \A k \in Keys : \A r \in Get("cancelled", k) : r.err = "cancelled"

\* C27: a restore of a snapshot whose checksum is not the checksum of its
\* version, creation time and record count returns data corruption and leaves
\* the memory table, the index and records_total as they were
C27_RestoreRejectsCorrupt ==
  [][\A s \in SnapInputs :
       (Restore(s) /\ s.Checksum # <<s.Version, s.CreatedAt, Cardinality(TableKeys(s.Records))>>)
         => /\ last'.op = "restore" /\ last'.err = "corruption"
            /\ memTable' = memTable
            /\ index' = index
            /\ recordsTotal' = recordsTotal]_vars

\* a restore has been refused for corruption while the memory table held
\* records and differed from what the snapshot holds
C27_Witness ==
  /\ up = "open" /\ last.op = "restore" /\ last.err = "corruption"
  /\ snap.taken
  /\ TableKeys(memTable) # {}
  /\ TableKeys(memTable) # TableKeys(snap.Records)

\* C28: after any completed put, delete, batch put or restore, before the
\* stats collector has run again, records_total is the number of keys in the
\* memory table
C28_RecordsTotal ==
  (up = "open" /\ last.op \in {"put", "delete", "batch", "restore"})
    => recordsTotal = Cardinality(TableKeys(memTable))

\* the keys of the live records (in the memory table and not expired, as Scan
\* tests it) of the range [start, end)
LiveInRange(start, end) ==
  {k \in Keys : /\ memTable[k] # 0 /\ ~Expired(heap[memTable[k]], now)
                /\ KeyRank(k) >= KeyRank(start)
                /\ (end = "" \/ KeyRank(k) < KeyRank(end))}

\* C11: scan(start, end, limit) returns keys in strictly ascending order, all
\* within [start, end) (an empty end: no upper bound), and when limit > 0 the
\* result is exactly the first min(limit, n) of the n live records of the range.
C11_ScanExact ==
  up = "open" =>
    \A start \in ScanStarts : \A end \in ScanEnds : \A limit \in ScanLimits :
      LET res == Scan(start, end, limit)
          live == LiveInRange(start, end)
          want == Min(limit, Cardinality(live))
      IN /\ \A i \in 1..(Len(res) - 1) : KeyRank(res[i]) < KeyRank(res[i + 1])
         /\ \A i \in 1..Len(res) :
              /\ KeyRank(res[i]) >= KeyRank(start)
              /\ (end = "" \/ KeyRank(res[i]) < KeyRank(end))
         /\ limit > 0 =>
              /\ Len(res) = want
              /\ \A i \in 1..Len(res) :
                   /\ res[i] \in live
                   /\ Cardinality({k \in live : KeyRank(k) < KeyRank(res[i])}) = i - 1

\* C12: a stored record whose expiration instant E satisfies E <= now is absent
\* (get answers not-found, scan omits it) whether or not the cleaner has run,
\* the instant now = E included; a record with E > now or without expiration
\* is returned by get and by a scan of the whole key space.
C12_TTLBoundary ==
  up = "open" =>
    \A k \in TableKeys(memTable) :
      LET E == heap[memTable[k]].ttl
      IN IF E # 0 /\ E <= now
         THEN /\ GetOutcomes(k) = {NotFound}
              /\ ~InSeq(k, Scan("", "", 0))
         ELSE /\ \A r \in GetOutcomes(k) : r.err = "ok"
              /\ InSeq(k, Scan("", "", 0))

----------------------------------------------------------------------------
(* Properties of the WAL *)

\* a decoded entry d is the appended entry e (same JSON text for the record)
SameEntry(d, e) ==
  /\ d.Op = e.Op /\ d.Key = e.Key /\ d.LSN = e.LSN /\ d.Timestamp = e.Timestamp
  /\ d.Checksum = e.Checksum
  /\ IF e.Record = 0 THEN ~d.HasRecord
     ELSE d.HasRecord /\ MarshalRecord(d.Record) = MarshalRecord(WalPool[e.Record])

\* C4: entries appended by one caller and then flushed or cleanly closed are
\* returned by read_all on the (re)opened log exactly, in append order:
\* none missing, duplicated or changed.
C4_RoundTrip ==
  (wRead.valid /\ wCrashes = 0 /\ wDamage = 0)
    => /\ Len(wRead.entries) = Len(wLog)
       /\ \A i \in 1..Len(wLog) : i <= Len(wRead.entries) => SameEntry(wRead.entries[i], wLog[i])

\* the frames written in full, undamaged, whose stored CRC the reader's own
\* recomputation accepts
ValidFrames == SelectSeq(wFrames, LAMBDA f : f.state = "ok" /\ CrcValid(f.ser))

\* C5: after crashes and on-disk damage, read_all returns exactly the entries
\* of the complete, CRC-valid frames, in file order: bad frames are dropped and
\* no valid frame is lost because of them.
C5_Recovery ==
  wRead.valid
    => wRead.entries = [i \in 1..Len(ValidFrames) |-> UnmarshalEntry(ValidFrames[i].ser)]

----------------------------------------------------------------------------
(* Properties of the hybrid engine *)

\* C6: a record whose put returned ok before close() is returned by get
\* after the engine is closed and reopened on the same data directory.
C6_HybridDurable ==
  (hRet.op = "get" /\ hRet.want.dur.some) => (hRet.ok /\ hRet.rec = hRet.want.dur)

\* C7: a get invoked after delete(K) returned, with no put of K since, fails
\* with not-found wherever the background worker stands in the queue.
C7_HybridDeleted ==
  (hRet.op = "get" /\ hRet.want.gone) => ~hRet.ok

\* C8: a get invoked after put(K, V) returned ok, with no put or delete of K
\* since, returns V in every interleaving with the worker and with other gets.
C8_ReadYourWrites ==
  (hRet.op = "get" /\ hRet.want.ack.some) => (hRet.ok /\ hRet.rec = hRet.want.ack)

\* C38: while the engine is open, when no call is in flight, the queue is
\* empty, no delete has been issued and every record the worker wrote carried
\* its key as Record.ID, the disk tier holds under every key the record the
\* memory tier holds under it
C38_TiersConverge ==
  (/\ hUp = "open"
   /\ \A c \in Callers : hThr[c].pc = "idle"
   /\ hQueue = << >>
   /\ \A i \in 1..Len(hWal) : hWal[i].op # "DELETE" /\ hWal[i].key # NoKey)
    => \A k \in HKeys : hDisk[k] = hMem[k]

Kept(i) == \A j \in (i + 1)..Len(tPuts) : tPuts[j].obj # tPuts[i].obj

\* the i-th version is one of the MaxVersions most recent ones
Retained(i) == i > Len(tPuts) - MaxVersions

\* the lookup returned the record written by the i-th put
ReturnsPut(i) ==
  /\ tRet.err = "ok"
  /\ tRet.rec = tPuts[i].obj
  /\ Kept(i) => (tRet.data = tPuts[i].data /\ tRet.version = tPuts[i].tx)

\* C9 as stated: after n >= 1 puts on K with versions v1 < ... < vn,
\* get_as_of(K, vi) returns the record written at vi for every i in 1..n, and
\* get_latest(K) returns the record written at vn.
C9_TimeTravelAll ==
  /\ tRet.op = "as_of" => (ReturnsPut(tRet.i) /\ tRet.data = tPuts[tRet.i].data)
  /\ tRet.op = "latest" => (ReturnsPut(tRet.i) /\ tRet.data = tPuts[tRet.i].data)

\* what the code does provide: get_as_of(K, vi) returns the record object put
\* at vi for the MaxVersions most recent versions (with the content written at
\* vi as long as that object was not put again) and not-found for every older
\* version; get_latest(K) returns the record written at vn.
TimeTravelRetained ==
  /\ (tRet.op = "as_of" /\ Retained(tRet.i)) => ReturnsPut(tRet.i)
  /\ (tRet.op = "as_of" /\ ~Retained(tRet.i)) => tRet.err = "not_found"
  /\ tRet.op = "latest" => (ReturnsPut(tRet.i) /\ tRet.data = tPuts[tRet.i].data)

\* C20: a record is immutable once written for a version: get_as_of(K, v)
\* keeps returning the data written at v (here for the versions the manager
\* still retains), whatever the caller does to the record object afterwards
C20_VersionImmutable ==
  (tRet.op = "as_of" /\ Retained(tRet.i)) =>
    /\ tRet.err = "ok"
    /\ tRet.data = tPuts[tRet.i].data
    /\ tRet.version = tPuts[tRet.i].tx

----------------------------------------------------------------------------
(* Properties of the HNSW index *)

\* C13: after any inserts and deletes, for any M, every id B in the list a
\* node A keeps for level L is a node of the index, and B lists A on level L
C13_Bidirectional ==
  \A a \in NodeIds(vNodes) : \A l \in Levels :
    \A i \in 1..Len(vNodes[a].friends[l]) :
      LET b == vNodes[a].friends[l][i]
      IN Exists(vNodes, b) /\ Has(vNodes[b].friends[l], a)

\* C29: after any inserts and deletes, every id in the list any node keeps for
\* any level is the id of a node now in the index: not the empty id, not a
\* node that was deleted or never stored
C29_NoDangling ==
  \A a \in NodeIds(vNodes) : \A l \in Levels :
    \A i \in 1..Len(vNodes[a].friends[l]) :
      /\ vNodes[a].friends[l][i] # ""
      /\ vNodes[a].friends[l][i] \in NodeIds(vNodes)

\* C40: after any inserts and deletes the entry point is unset exactly when
\* the index is empty; otherwise it is a stored node whose level is maxLevel,
\* and maxLevel is the highest level of any stored node
C40_EntryPoint ==
  /\ (vEnter = "") <=> (NodeIds(vNodes) = {})
  /\ vEnter # ""
       => /\ Exists(vNodes, vEnter)
          /\ vNodes[vEnter].level = vMaxLevel
          /\ \A id \in NodeIds(vNodes) : vNodes[id].level <= vMaxLevel

\* C30: after any inserts and deletes, every node's list holds at most 2*M ids
\* on level 0 and at most M ids on every level above 0
C30_FanOutCap ==
  \A a \in NodeIds(vNodes) : \A l \in Levels :
    Len(vNodes[a].friends[l]) <= (IF l = 0 THEN 2 * vM ELSE vM)

\* a list that was pruned (pruning is what leaves the empty id) is exactly at
\* its cap, in an index with more nodes than the cap
C30_Witness ==
  \E a \in NodeIds(vNodes) : \E l \in Levels :
    /\ Len(vNodes[a].friends[l]) = (IF l = 0 THEN 2 * vM ELSE vM)
    /\ Has(vNodes[a].friends[l], "")
    /\ Cardinality(NodeIds(vNodes)) > 2 * vM + 1

\* the queries of the configured dimension and the values of k
VQueries == {VecOf[id] : id \in VIds}
VKs == 1..3

\* C14: with N >= 1 nodes, Search(q, k) returns min(k, N) ids with as many
\* scores, the ids pairwise distinct and each a node, the scores non-increasing
C14_SearchShape ==
  NodeIds(vNodes) # {} =>
    \A q \in VQueries : \A k \in VKs :
      LET res == Search(vNodes, vEnter, vMaxLevel, q, k)
      IN /\ Len(res) = Min(k, Cardinality(NodeIds(vNodes)))
         /\ \A i \in 1..Len(res) : Exists(vNodes, res[i].id)
         /\ \A i, j \in 1..Len(res) : i # j => res[i].id # res[j].id
         /\ \A i \in 1..(Len(res) - 1) : res[i].score >= res[i + 1].score

----------------------------------------------------------------------------
(* Properties of the columnar store *)

RECURSIVE SeqSum(_)
\* the arithmetic sum of the numbers carried by a sequence of values
SeqSum(vals) == IF vals = << >> THEN 0 ELSE Head(vals).v + SeqSum(Tail(vals))

Numbers(vals) == {vals[i].v : i \in 1..Len(vals)}

\* C15: after any sequence of InsertBatch calls, for any block size, COUNT of
\* a column is the number of rows inserted with that column and SUM is the
\* arithmetic sum of the values inserted
C15_CountAndSum ==
  \A name \in DataCols :
    cInserted[name] # << >> =>
      /\ Aggregate(cColumns, name, "COUNT") = [err |-> "ok", value |-> GoInt64(Len(cInserted[name]))]
      /\ Aggregate(cColumns, name, "SUM").err = "ok"
      /\ Aggregate(cColumns, name, "SUM").value.v = SeqSum(cInserted[name])

\* C16: at any point, before or after a block is sealed, with or without
\* compression, MIN and MAX of a column are the smallest and the largest
\* value inserted so far
C16_MinMax ==
  \A name \in DataCols :
    cInserted[name] # << >> =>
      LET lo == Aggregate(cColumns, name, "MIN")
          hi == Aggregate(cColumns, name, "MAX")
      IN /\ lo.err = "ok" /\ lo.value # Nil
         /\ hi.err = "ok" /\ hi.value # Nil
         /\ \A n \in Numbers(cInserted[name]) : lo.value.v <= n /\ n <= hi.value.v
         /\ lo.value.v \in Numbers(cInserted[name])
         /\ hi.value.v \in Numbers(cInserted[name])

----------------------------------------------------------------------------
(* Properties of KviEngine under concurrent callers *)

\* C17: no operation blocks forever: every get, put, delete, scan, batch_put,
\* snapshot and restore a caller has invoked eventually returns
C17_AllReturn == \A t \in Threads : (lPc[t].op # "idle") ~> (lPc[t].op = "idle")

\* the locks around the engine's structures
StructureLocks == {"memMu", "indexMu", "mvccMu", "bufMu"}

\* C18: no engine operation ever holds two structure locks at once
C18_OneLockAtATime == \A t \in Threads : Cardinality(Held(t) \cap StructureLocks) <= 1

\* C19: the MVCC chain of a key is strictly increasing in its transaction
\* ids after any interleaving of concurrent puts and deletes
C19_ChainIncreasing ==
  \A i \in 1..(Len(lChain) - 1) : lChain[i].TxID < lChain[i + 1].TxID

----------------------------------------------------------------------------
(* Properties of the WAL under concurrent callers *)

\* C31: every ReadAll returns, also when entries are buffered at the time of
\* the call (it flushes them and goes on to read the file)
C31_ReadAllReturns ==
  \A t \in Threads : (qPc[t].op = "ReadAll") ~> (qPc[t].op = "idle")

\* C39: the frames of the log file are in non-decreasing LSN order, however
\* the concurrent Append and Flush calls interleave
C39_LogOrder ==
  \A i \in 1..Len(qFile) : \A j \in i..Len(qFile) : qFile[i] <= qFile[j]

====
